---- MODULE Spec2Model ----
(***************************************************************************)
(* Address extraction, USPS standardization and checkpointing of the adr   *)
(* repository (src/prsr.rs, src/usps.rs, src/senate.rs, src/house.rs).     *)
(*                                                                         *)
(* A Rust String is a sequence of one-character strings; the empty String *)
(* is << >>.  Indices into Vec<String> are kept 0-based as in the source   *)
(* (At(v, i) is v[i]); usize::MAX is written -1.                           *)
(***************************************************************************)
EXTENDS Integers, Sequences, FiniteSets, TLC

VARIABLES
    lnes,       \* parse_addresses: the line sequence handed to the extractor
    parsed,     \* parse_addresses: its outcome, NotRun before the call
    adrs,       \* standardize_addresses: the Vec<Address> being standardized
    origs,      \* ghost: for each element of adrs, its index in the input
    idx,        \* standardize_addresses: loop index (-1 once the loop is over)
    pc,         \* standardize_addresses: "loop", "retry" or "done"
    result,     \* standardize_addresses: "none", "ok" or "err"
    sent,       \* ghost: per input address, the submissions made for it
    lastCall,   \* ghost: the last standardize_address call (before, after)
    input,      \* ghost: the Vec<Address> standardize_addresses was given
    persons,    \* Senate/House: self.persons (adrs of each entity)
    clone,      \* self_clone.persons
    disk,       \* the persisted checkpoint (senate.json / house.json)
    disk_url,   \* House: the persisted url_known of each entity (house.url.json)
    cur,        \* fetch loop: index of the entity being processed
    fpc,        \* fetch loop: position in fetch_addresses / fetch_adrs
    flow,       \* which collection runs: "senate" or "house"
    path,       \* fetch loop: index of the url path being tried
    acc,        \* House: addresses gathered over several fixed urls
    writes,     \* ghost: number of checkpoint writes of this run
    fresult,    \* fetch loop: "none", "ok" or "err"
    zin,        \* is_zip: the string tested
    zout,       \* is_zip: the answers of is_zip, is_zip5 and is_zip10
    op,         \* line editor: the operation applied to lnes, "none" before
    once,       \* line editor: the outcome of op on lnes
    twice       \* line editor: the outcome of op on the lines of once

editVars == <<zin, zout, op, once, twice>>
parseVars == <<lnes, parsed, zin, zout, op, once, twice>>
stdVars == <<adrs, origs, idx, pc, result, sent, lastCall, input>>
fetchVars == <<persons, clone, disk, disk_url, cur, fpc, flow, path, acc, writes, fresult>>
vars == <<lnes, parsed, adrs, origs, idx, pc, result, sent, lastCall, input,
          persons, clone, disk, disk_url, cur, fpc, flow, path, acc, writes, fresult,
          zin, zout, op, once, twice>>

(***************************************************************************)
(* Strings                                                                 *)
(***************************************************************************)
Digits == {"0", "1", "2", "3", "4", "5", "6", "7", "8", "9"}
UpperLetters == {"A", "B", "C", "D", "E", "F", "G", "H", "I", "J", "K", "L", "M",
                 "N", "O", "P", "Q", "R", "S", "T", "U", "V", "W", "X", "Y", "Z"}
LowerLetters == {"a", "b", "c", "d", "e", "f", "g", "h", "i", "j", "k", "l", "m",
                 "n", "o", "p", "q", "r", "s", "t", "u", "v", "w", "x", "y", "z"}
Letters == UpperLetters \cup LowerLetters
Whitespace == {" ", "\t", "\n"}

\* The characters of the model in ASCII order; Code(c) is the rank of c.
Ascii == <<"\t", "\n", " ", "#", ",", "-", ".", "/",
           "0", "1", "2", "3", "4", "5", "6", "7", "8", "9",
           "A", "B", "C", "D", "E", "F", "G", "H", "I", "J", "K", "L", "M",
           "N", "O", "P", "Q", "R", "S", "T", "U", "V", "W", "X", "Y", "Z",
           "a", "b", "c", "d", "e", "f", "g", "h", "i", "j", "k", "l", "m",
           "n", "o", "p", "q", "r", "s", "t", "u", "v", "w", "x", "y", "z", "|", "~">>
Code(c) == CHOOSE i \in 1..Len(Ascii) : Ascii[i] = c

\* (?i): the upper-case form of an ASCII letter.
ToUpper(c) ==
    IF c \in LowerLetters
    THEN Ascii[Code(c) - 26]
    ELSE c

\* str::len counts the bytes of the UTF-8 encoding: "U+00E9" stands for a
\* character that is not ASCII and takes two bytes, "U+00BD" for the
\* character one half of edit_char_half
NonAscii == "U+00E9"
Half == "U+00BD"
Utf8Len(c) == IF c \in {NonAscii, Half} THEN 2 ELSE 1

RECURSIVE StrLen(_)
StrLen(s) == IF s = << >> THEN 0 ELSE Utf8Len(Head(s)) + StrLen(Tail(s))

At(v, i) == v[i + 1]

Min(a, b) == IF a < b THEN a ELSE b

\* str::contains(pat)
Contains(s, pat) ==
    \E i \in 1..(Len(s) - Len(pat) + 1) : SubSeq(s, i, i + Len(pat) - 1) = pat

\* Ord for String: byte-wise lexicographic order.
StrLess(s, t) ==
    \/ /\ Len(s) < Len(t)
       /\ SubSeq(t, 1, Len(s)) = s
    \/ \E i \in 1..Min(Len(s), Len(t)) :
          /\ SubSeq(s, 1, i - 1) = SubSeq(t, 1, i - 1)
          /\ Code(s[i]) < Code(t[i])

\* Option<String>: None is a value no String equals; Some(s) is s.
None == <<"None">>
IsSome(o) == o # None

\* Ord for Option<String>: None < Some(_).
OptLess(a, b) ==
    IF a = None THEN b # None
    ELSE IF b = None THEN FALSE
    ELSE StrLess(a, b)

(***************************************************************************)
(* Regular expressions of Prsr::new.  A position is the number of          *)
(* characters consumed; each combinator maps the set of positions reached  *)
(* before a sub-pattern to the set reached after it.                       *)
(***************************************************************************)
\* one character of class C
One(s, P, C) == {p + 1 : p \in {q \in P : q < Len(s) /\ s[q + 1] \in C}}

\* C?
Opt(s, P, C) == P \cup One(s, P, C)

\* C*
Star(s, P, C) ==
    {q \in 0..Len(s) : \E p \in P : p <= q /\ \A k \in (p + 1)..q : s[k] \in C}

\* C+
Plus(s, P, C) == Star(s, One(s, P, C), C)

\* a literal word, matched case-insensitively
Lit(s, P, w) ==
    {p + Len(w) : p \in {q \in P : /\ q + Len(w) <= Len(s)
                                   /\ \A k \in 1..Len(w) : ToUpper(s[q + k]) = w[k]}}

NumberWords ==
    { <<"O", "N", "E">>, <<"T", "W", "O">>, <<"T", "H", "R", "E", "E">>,
      <<"F", "O", "U", "R">>, <<"F", "I", "V", "E">>, <<"S", "I", "X">>,
      <<"S", "E", "V", "E", "N">>, <<"E", "I", "G", "H", "T">>,
      <<"N", "I", "N", "E">>, <<"T", "E", "N">>,
      <<"E", "L", "E", "V", "E", "N">>, <<"T", "W", "E", "L", "V", "E">>,
      <<"T", "H", "I", "R", "T", "E", "E", "N">>,
      <<"F", "O", "U", "R", "T", "E", "E", "N">>,
      <<"F", "I", "F", "T", "E", "E", "N">>,
      <<"S", "I", "X", "T", "E", "E", "N">>,
      <<"S", "E", "V", "E", "N", "T", "E", "E", "N">>,
      <<"E", "I", "G", "H", "T", "E", "E", "N">>,
      <<"N", "I", "N", "E", "T", "E", "E", "N">>,
      <<"T", "W", "E", "N", "T", "Y">> }

\* re_address1:
\*   ^(\d+[A-Za-z]?[-\s]?\d*[A-Za-z]*/?\d*|one|...|twenty)\s+.*[A-Za-z].*$
re_address1(s) ==
    LET d1 == Plus(s, {0}, Digits)
        d2 == Opt(s, d1, Letters)
        d3 == Opt(s, d2, {"-"} \cup Whitespace)
        d4 == Star(s, d3, Digits)
        d5 == Star(s, d4, Letters)
        d6 == Opt(s, d5, {"/"})
        d7 == Star(s, d6, Digits)
        wd == UNION {Lit(s, {0}, w) : w \in NumberWords}
        sp == Plus(s, d7 \cup wd, Whitespace)
    IN  \E m \in sp :
           /\ \E q \in (m + 1)..Len(s) : s[q] \in Letters
           /\ \A k \in (m + 1)..Len(s) : s[k] # "\n"

\* re_po_box:  ^P\s*\.?\s*O\s*\.?\s*BOX\s*\d+$
re_po_box(s) ==
    LET p1 == Lit(s, {0}, <<"P">>)
        p2 == Star(s, Opt(s, Star(s, p1, Whitespace), {"."}), Whitespace)
        p3 == Lit(s, p2, <<"O">>)
        p4 == Star(s, Opt(s, Star(s, p3, Whitespace), {"."}), Whitespace)
        p5 == Lit(s, p4, <<"B", "O", "X">>)
        p6 == Plus(s, Star(s, p5, Whitespace), Digits)
    IN  Len(s) \in p6

(***************************************************************************)
(* Zip predicates (src/prsr.rs)                                            *)
(***************************************************************************)
LEN_ZIP5 == 5
LEN_ZIP10 == 10
ZIP_DASH == "-"

is_zip_any_sixth(lne) ==
    CASE StrLen(lne) = LEN_ZIP5 -> \A i \in 1..Len(lne) : lne[i] \in Digits
      [] StrLen(lne) = LEN_ZIP10 ->
            \A i \in 1..Len(lne) : i - 1 = LEN_ZIP5 \/ lne[i] \in Digits
      [] OTHER -> FALSE

is_zip(lne) ==
    CASE StrLen(lne) = LEN_ZIP5 -> \A i \in 1..Len(lne) : lne[i] \in Digits
      [] StrLen(lne) = LEN_ZIP10 ->
            \A i \in 1..Len(lne) :
                IF i - 1 = LEN_ZIP5 THEN lne[i] = ZIP_DASH ELSE lne[i] \in Digits
      [] OTHER -> FALSE

is_zip5(lne) == StrLen(lne) = LEN_ZIP5 /\ \A i \in 1..Len(lne) : lne[i] \in Digits

is_zip10(lne) ==
    IF StrLen(lne) # LEN_ZIP10
    THEN FALSE
    ELSE \A i \in 1..Len(lne) :
            IF i - 1 = LEN_ZIP5 THEN lne[i] = ZIP_DASH ELSE lne[i] \in Digits

\* Zip codes associated with addresses the USPS does not recognize.
InvalidZips ==
    { <<"8", "9", "8", "0", "1">>, <<"4", "9", "8", "5", "4">>,
      <<"7", "8", "7", "0", "2">>, <<"2", "9", "1", "4", "2">>,
      <<"8", "5", "1", "3", "9">>, <<"7", "8", "0", "7", "1">>,
      <<"0", "7", "4", "1", "0">>, <<"8", "5", "3", "5", "3">>,
      <<"1", "2", "4", "5", "1">>, <<"2", "8", "5", "6", "2">>,
      <<"0", "0", "8", "0", "2">>, <<"9", "6", "9", "5", "2">> }

is_invalid_zip(zip) == zip \in InvalidZips

(***************************************************************************)
(* models.rs: Address, with the derived lexicographic Ord                  *)
(***************************************************************************)
Address(a1, a2, c, s, z) ==
    [address1 |-> a1, address2 |-> a2, city |-> c, state |-> s, zip |-> z]

\* Address::is_valid
is_valid(a) ==
    /\ StrLen(a.address1) <= 40
    /\ (IsSome(a.address2) => StrLen(a.address2) <= 40)
    /\ StrLen(a.city) <= 40
    /\ StrLen(a.state) <= 2
    /\ StrLen(a.zip) <= 10

AddressDefault == Address(<< >>, None, << >>, << >>, << >>)

AddressLess(a, b) ==
    IF a.address1 # b.address1 THEN StrLess(a.address1, b.address1)
    ELSE IF a.address2 # b.address2 THEN OptLess(a.address2, b.address2)
    ELSE IF a.city # b.city THEN StrLess(a.city, b.city)
    ELSE IF a.state # b.state THEN StrLess(a.state, b.state)
    ELSE StrLess(a.zip, b.zip)

\* place x into a sorted sequence
RECURSIVE SortedInsert(_, _)
SortedInsert(v, x) ==
    IF v = << >> THEN <<x>>
    ELSE IF AddressLess(x, Head(v)) THEN <<x>> \o v
    ELSE <<Head(v)>> \o SortedInsert(Tail(v), x)

\* adrs.sort_unstable()
RECURSIVE sort_unstable(_)
sort_unstable(v) ==
    IF v = << >> THEN << >>
    ELSE SortedInsert(sort_unstable(Tail(v)), Head(v))

\* adrs.dedup_by(|a, b| a == b): drops an element equal to its predecessor
RECURSIVE dedup(_)
dedup(v) ==
    IF Len(v) <= 1 THEN v
    ELSE IF v[1] = v[2] THEN dedup(Tail(v))
    ELSE <<Head(v)>> \o dedup(Tail(v))

(***************************************************************************)
(* Prsr::parse_addresses (src/prsr.rs)                                     *)
(***************************************************************************)
NotRun == [st |-> "notrun", adrs |-> << >>]
Panic == [st |-> "panic", adrs |-> << >>]
NoAddress == [st |-> "none", adrs |-> << >>]
SomeAdrs(v) == [st |-> "some", adrs |-> v]

\* either shape that qualifies a line as address1
IsAdr1Line(lne) == re_address1(lne) \/ re_po_box(lne)

\* the backward while loop; -1 is usize::MAX reached by wrapping_sub(1) at 0
RECURSIVE LocateAdr1(_, _)
LocateAdr1(ls, i) ==
    IF i = -1 THEN -1
    ELSE IF IsAdr1Line(At(ls, i)) THEN i
    ELSE LocateAdr1(ls, i - 1)

\* "Check if address2 looks like address1."
PreferEarlier_always(ls, i) ==
    IF i # 0 /\ re_address1(At(ls, i - 1))
    THEN i - 1
    ELSE i
PreferEarlier(ls, i) ==
    IF i # 0 /\ ~re_po_box(At(ls, i)) /\ re_address1(At(ls, i - 1))
    THEN i - 1
    ELSE i

\* the address2 loop from idx_adr2 up to idx_city; indexing past the end
\* of lnes panics (PanicStr is a value no String equals)
PanicStr == <<"panic">>

RECURSIVE JoinAddress2(_, _, _, _)
JoinAddress2(ls, idx_adr2, idx_city, address2) ==
    IF idx_adr2 = idx_city THEN address2
    ELSE IF idx_adr2 >= Len(ls) THEN PanicStr
    ELSE JoinAddress2(ls, idx_adr2 + 1, idx_city,
                      address2 \o <<" ">> \o At(ls, idx_adr2))

\* the body of the loop for a zip anchor at index i: st is "adr" (the
\* address pushed), "none" (return None) or "panic"
BuildAddress(ls, i) ==
    IF i - 1 < 0 \/ i - 2 < 0
    THEN [st |-> "panic", adr |-> AddressDefault]   \* lnes[idx - 1], idx - 2
    ELSE
      LET idx_city == i - 2
          start == IF i - 3 < 0 THEN 0 ELSE i - 3     \* saturating_sub(3)
          found == LocateAdr1(ls, start)
      IN  IF found = -1
          THEN [st |-> "none", adr |-> AddressDefault]
          ELSE
            LET idx_adr1 == PreferEarlier(ls, found)
                idx_adr2 == idx_adr1 + 1
                address2 ==
                    IF idx_adr2 # idx_city
                    THEN JoinAddress2(ls, idx_adr2 + 1, idx_city, At(ls, idx_adr2))
                    ELSE None
            IN  IF address2 = PanicStr
                THEN [st |-> "panic", adr |-> AddressDefault]
                ELSE [st |-> "adr",
                      adr |-> Address(At(ls, idx_adr1), address2,
                                      At(ls, idx_city), At(ls, i - 1), At(ls, i))]

\* the zip test that makes a line an anchor
IsAnchor_any(lne) == is_zip(lne)
IsAnchor_zip5(lne) == is_zip5(lne) /\ ~is_invalid_zip(lne)
IsAnchor(lne) == is_zip(lne) /\ ~is_invalid_zip(lne)

\* the reverse scan `for (idx, lne) in lnes.iter().enumerate().rev()`
RECURSIVE ScanAnchors(_, _, _)
ScanAnchors(ls, i, found) ==
    IF i < 0 THEN SomeAdrs(found)
    ELSE IF IsAnchor(At(ls, i))
    THEN LET b == BuildAddress(ls, i)
         IN  IF b.st = "panic" THEN Panic
             ELSE IF b.st = "none" THEN NoAddress
             ELSE ScanAnchors(ls, i - 1, Append(found, b.adr))
    ELSE ScanAnchors(ls, i - 1, found)

parse_addresses_unsorted(ls) ==
    LET scan == ScanAnchors(ls, Len(ls) - 1, << >>)
    IN  IF scan.st # "some" THEN scan
        ELSE IF scan.adrs = << >> THEN NoAddress
        ELSE SomeAdrs(scan.adrs)

parse_addresses_first(ls) ==
    LET scan == ScanAnchors(ls, Len(ls) - 1, << >>)
    IN  IF scan.st # "some" THEN scan
        ELSE IF scan.adrs = << >> THEN NoAddress
        ELSE SomeAdrs(<<Head(scan.adrs)>>)
parse_addresses(ls) ==
    LET scan == ScanAnchors(ls, Len(ls) - 1, << >>)
    IN  IF scan.st # "some" THEN scan
        ELSE IF scan.adrs = << >> THEN NoAddress
        ELSE SomeAdrs(dedup(sort_unstable(scan.adrs)))

(***************************************************************************)
(* Line sequences handed to parse_addresses                                *)
(***************************************************************************)
L_1_A_ST == <<"1", " ", "A", " ", "S", "T">>
L_PO_BOX_7 == <<"P", "O", " ", "B", "O", "X", " ", "7">>
L_STE_2 == <<"S", "T", "E", " ", "2">>
L_AUSTIN == <<"A", "U", "S", "T", "I", "N">>
L_TX == <<"T", "X">>
L_78701 == <<"7", "8", "7", "0", "1">>
L_13202 == <<"1", "3", "2", "0", "2">>
L_20515 == <<"2", "0", "5", "1", "5">>
L_20515_0001 == <<"2", "0", "5", "1", "5", "-", "0", "0", "0", "1">>
L_89801 == <<"8", "9", "8", "0", "1">>
L_49854 == <<"4", "9", "8", "5", "4">>
L_1022_LONGWORTH_HOB == <<"1", "0", "2", "2", " ", "L", "O", "N", "G", "W", "O", "R", "T", "H", " ", "H", "O", "B">>
L_WASHINGTON == <<"W", "A", "S", "H", "I", "N", "G", "T", "O", "N">>
L_DC == <<"D", "C">>
L_440_SOUTH_WARREN_STREET == <<"4", "4", "0", " ", "S", "O", "U", "T", "H", " ", "W", "A", "R", "R", "E", "N", " ", "S", "T", "R", "E", "E", "T">>
L_SUITE_706 == <<"S", "U", "I", "T", "E", " ", "7", "0", "6">>
L_SYRACUSE == <<"S", "Y", "R", "A", "C", "U", "S", "E">>
L_NY == <<"N", "Y">>

MaxLines == 5
MaxBlocks == 2

LinePool == {L_1_A_ST, L_PO_BOX_7, L_AUSTIN, L_TX, L_78701, L_89801, L_20515_0001}

SeqsUpTo(S, n) == UNION {[1..k -> S] : k \in 0..n}

\* address blocks: address1, optional address2 line, city, state, zip
BlockPool ==
    {<<a1>> \o a2 \o <<L_AUSTIN, L_TX, z>> :
        a1 \in {L_1_A_ST, L_PO_BOX_7},
        a2 \in {<< >>, <<L_STE_2>>},
        z \in {L_78701, L_13202, L_20515, L_20515_0001}}

RECURSIVE BlockSeqs(_)
BlockSeqs(n) ==
    IF n = 0 THEN {<< >>}
    ELSE LET shorter == BlockSeqs(n - 1)
         IN  shorter \cup {s \o b : s \in shorter, b \in BlockPool}

LongworthSyracuse ==
    <<L_1022_LONGWORTH_HOB, L_WASHINGTON, L_DC, L_20515,
      L_440_SOUTH_WARREN_STREET, L_SUITE_706, L_SYRACUSE, L_NY, L_13202>>

ParseInputs ==
    SeqsUpTo(LinePool, MaxLines) \cup BlockSeqs(MaxBlocks) \cup {LongworthSyracuse}

(***************************************************************************)
(* Specification of the extractor: parse_addresses applied to one of the  *)
(* line sequences above.                                                   *)
(***************************************************************************)
StdIdle ==
    /\ adrs = << >>
    /\ origs = << >>
    /\ idx = -1
    /\ pc = "done"
    /\ result = "none"
    /\ sent = << >>
    /\ lastCall = << >>
    /\ input = << >>

FetchIdle ==
    /\ persons = << >>
    /\ clone = << >>
    /\ disk = << >>
    /\ disk_url = << >>
    /\ cur = 0
    /\ fpc = "done"
    /\ flow = "none"
    /\ path = 0
    /\ acc = << >>
    /\ writes = 0
    /\ fresult = "none"

\* no outcome yet
NoZip == [run |-> FALSE, zip |-> FALSE, zip5 |-> FALSE, zip10 |-> FALSE]
NoEdit == [st |-> "notrun", lnes |-> << >>]
NoPerson == [name_fst |-> "", name_lst |-> ""]
NoOp == [fn |-> "none", per |-> NoPerson]

EditIdle ==
    /\ zin = << >>
    /\ zout = NoZip
    /\ op = NoOp
    /\ once = NoEdit
    /\ twice = NoEdit

ParseIdle ==
    /\ lnes = << >>
    /\ parsed = NotRun
    /\ EditIdle

InitParse ==
    /\ lnes \in ParseInputs
    /\ parsed = NotRun
    /\ EditIdle
    /\ StdIdle
    /\ FetchIdle

ParseAddresses ==
    /\ parsed = NotRun
    /\ parsed' = parse_addresses(lnes)
    /\ UNCHANGED <<lnes, editVars, stdVars, fetchVars>>

NextParse == ParseAddresses

SpecParse == InitParse /\ [][NextParse]_vars

(***************************************************************************)
(* usps.rs: standardize_address and standardize_addresses                  *)
(***************************************************************************)
L_Range == <<"R", "a", "n", "g", "e">>
L_Range_1_A == <<"R", "a", "n", "g", "e", " ", "1", " ", "A">>
L_0001 == <<"0", "0", "0", "1">>

\* USPSAddress (companyName is never read)
USPSAddress(l1, l2, c, s, z5, z4) ==
    [addressLine1 |-> l1, addressLine2 |-> l2, city |-> c, state |-> s,
     zip5 |-> z5, zip4 |-> z4]

\* fn from(adr, usps)
from(adr, usps) ==
    [adr EXCEPT !.address1 = usps.addressLine1,
                !.address2 = usps.addressLine2,
                !.city = usps.city,
                !.state = usps.state,
                !.zip = usps.zip5 \o <<"-">> \o usps.zip4]

\* the form fields of one request; None is a field that is not sent
Params(adr) ==
    [address1 |-> IF adr.address1 # << >> THEN adr.address1 ELSE None,
     address2 |-> adr.address2,
     city |-> IF adr.city # << >> THEN adr.city ELSE None,
     state |-> IF adr.state # << >> THEN adr.state ELSE None,
     zip |-> IF adr.zip # << >> THEN adr.zip ELSE None]

\* addressList.into_iter().find(|v| !v.addressLine1.contains("Range"))
IsRange(v) == Contains(v.addressLine1, L_Range)

NotRange(list) == SelectSeq(list, LAMBDA v : ~IsRange(v))

\* what the validator answered: transport "err" is a failed send, a failed
\* read of the body or a body that is not a USPSResponse
HttpResponse(status, list) ==
    [transport |-> "ok", resultStatus |-> status, addressList |-> list]

TransportError ==
    [transport |-> "err", resultStatus |-> "", addressList |-> << >>]

\* standardize_address: ok is Ok(()) / Err(_), adr is *adr afterwards
standardize_address_first(adr, response) ==
    IF response.transport = "err"
    THEN [ok |-> FALSE, adr |-> adr]
    ELSE IF response.addressList # << >>
    THEN [ok |-> TRUE, adr |-> from(adr, Head(response.addressList))]
    ELSE [ok |-> FALSE, adr |-> adr]
standardize_address(adr, response) ==
    IF response.transport = "err"
    THEN [ok |-> FALSE, adr |-> adr]
    ELSE IF response.resultStatus = "SUCCESS"
    THEN IF response.addressList # << >>
         THEN IF NotRange(response.addressList) # << >>
              THEN [ok |-> TRUE,
                    adr |-> from(adr, Head(NotRange(response.addressList)))]
              ELSE [ok |-> FALSE, adr |-> adr]
         ELSE [ok |-> FALSE, adr |-> adr]
    ELSE [ok |-> FALSE, adr |-> adr]

\* `if adrs[idx].zip == "89801"`: a failed address that is removed
RemovedOnFailure_always(adr) == TRUE
RemovedOnFailure(adr) == adr.zip = <<"8", "9", "8", "0", "1">>

\* Vec::remove(idx), idx 0-based
Remove(v, i) == SubSeq(v, 1, i) \o SubSeq(v, i + 2, Len(v))

MaxAdrs == 2
MaxCandidates == 2

AddressPool ==
    { Address(L_1_A_ST, None, L_AUSTIN, L_TX, L_78701),
      Address(L_STE_2, L_1_A_ST, L_AUSTIN, L_TX, L_78701),
      Address(L_1_A_ST, None, L_AUSTIN, L_TX, L_89801),
      Address(L_1_A_ST, None, L_AUSTIN, L_TX, L_49854) }

CandidatePool ==
    { USPSAddress(L_1_A_ST, None, L_AUSTIN, L_TX, L_78701, L_0001),
      USPSAddress(L_1_A_ST, L_STE_2, L_AUSTIN, L_TX, L_78701, L_0001),
      USPSAddress(L_Range_1_A, None, L_AUSTIN, L_TX, L_78701, L_0001) }

Responses ==
    {HttpResponse(s, l) : s \in {"SUCCESS", "ADDRESS NOT FOUND"},
                          l \in SeqsUpTo(CandidatePool, MaxCandidates)}
        \cup {TransportError}

\* the answers of the validator during a fetching pass
PassResponses ==
    { HttpResponse("SUCCESS",
                   <<USPSAddress(L_1_A_ST, None, L_AUSTIN, L_TX, L_78701, L_0001)>>),
      HttpResponse("ADDRESS NOT FOUND", << >>) }

\* the answers a call may get
StdResponses == IF flow = "none" THEN Responses ELSE PassResponses

NoCall == [made |-> FALSE]

Call(k, adr, response, r) ==
    [made |-> TRUE, of |-> k, before |-> adr, response |-> response,
     ok |-> r.ok, after |-> r.adr]

Submission(adr, r) == [prms |-> Params(adr), ok |-> r.ok]

InitStd ==
    /\ input \in SeqsUpTo(AddressPool, MaxAdrs)
    /\ adrs = input
    /\ origs = [k \in 1..Len(input) |-> k]
    /\ idx = Len(input) - 1
    /\ pc = "loop"
    /\ result = "none"
    /\ sent = [k \in 1..Len(input) |-> << >>]
    /\ lastCall = NoCall
    /\ ParseIdle
    /\ FetchIdle

\* one iteration of the loop up to its first await: the as-is submission
StdAttempt ==
    /\ pc = "loop"
    /\ idx >= 0
    /\ \E response \in StdResponses :
          LET adr == At(adrs, idx)
              k == At(origs, idx)
              r == standardize_address(adr, response)
          IN  /\ sent' = [sent EXCEPT ![k] = Append(@, Submission(adr, r))]
              /\ lastCall' = Call(k, adr, response, r)
              /\ IF r.ok
                 THEN /\ adrs' = [adrs EXCEPT ![idx + 1] = r.adr]
                      /\ idx' = idx - 1
                      /\ UNCHANGED <<origs, pc>>
                 ELSE IF RemovedOnFailure(adr)
                 THEN /\ adrs' = Remove(adrs, idx)
                      /\ origs' = Remove(origs, idx)
                      /\ idx' = idx - 1
                      /\ UNCHANGED pc
                 ELSE /\ adrs' = [adrs EXCEPT ![idx + 1].zip = << >>]
                      /\ pc' = "retry"
                      /\ UNCHANGED <<origs, idx>>
    /\ UNCHANGED <<result, input, parseVars, fetchVars>>

\* the second submission, of the address without its zip; `?` returns Err
StdRetry ==
    /\ pc = "retry"
    /\ \E response \in StdResponses :
          LET adr == At(adrs, idx)
              k == At(origs, idx)
              r == standardize_address(adr, response)
          IN  /\ sent' = [sent EXCEPT ![k] = Append(@, Submission(adr, r))]
              /\ lastCall' = Call(k, adr, response, r)
              /\ IF r.ok
                 THEN /\ adrs' = [adrs EXCEPT ![idx + 1] = r.adr]
                      /\ idx' = idx - 1
                      /\ pc' = "loop"
                      /\ UNCHANGED result
                 ELSE /\ result' = "err"
                      /\ pc' = "done"
                      /\ UNCHANGED <<adrs, idx>>
    /\ UNCHANGED <<origs, input, parseVars, fetchVars>>

\* the loop is over: Ok(())
StdReturn ==
    /\ pc = "loop"
    /\ idx = -1
    /\ pc' = "done"
    /\ result' = "ok"
    /\ UNCHANGED <<adrs, origs, idx, sent, lastCall, input, parseVars, fetchVars>>

NextStd == StdAttempt \/ StdRetry \/ StdReturn

SpecStd == InitStd /\ [][NextStd]_vars

(***************************************************************************)
(* Claims about the Standardization Client                                 *)
(***************************************************************************)
InputIndices == 1..Len(input)

\* the four submissions of the protocol for an address a with an address2
CombineForm(a) ==
    [a EXCEPT !.address1 = a.address1 \o <<" ">> \o a.address2, !.address2 = None]

SwapForm(a) == [a EXCEPT !.address1 = a.address2, !.address2 = a.address1]

DropZipForm(a) == [a EXCEPT !.zip = << >>]

FourStrategies(a) ==
    <<Params(a), Params(CombineForm(a)), Params(SwapForm(a)), Params(DropZipForm(a))>>

\* C1: for each address the client submits as-is, combine, swap, drop zip
\* in this order and stops at the first success, so that an address whose
\* street line sits in address2 is submitted in swap form third.
C1_FourStrategiesInOrder ==
    \A k \in InputIndices :
        IsSome(input[k].address2) =>
            /\ Len(sent[k]) <= 4
            /\ \A n \in 1..Len(sent[k]) :
                  /\ sent[k][n].prms = FourStrategies(input[k])[n]
                  /\ n < Len(sent[k]) => ~sent[k][n].ok

AllAttemptsFailed(k) ==
    /\ sent[k] # << >>
    /\ \A n \in 1..Len(sent[k]) : ~sent[k][n].ok

\* the position in adrs of input address k, 0 if it was removed
PositionOf(k) ==
    IF \E p \in 1..Len(origs) : origs[p] = k
    THEN CHOOSE p \in 1..Len(origs) : origs[p] = k
    ELSE 0

\* C2: when every attempt fails for an address whose zip is not denylisted
\* standardize_addresses returns an error; it returns Ok only if every such
\* address is still in the list and was overwritten by a successful attempt.
C2_FailurePropagates ==
    pc = "done" =>
        \A k \in InputIndices :
            ~is_invalid_zip(input[k].zip) =>
                /\ AllAttemptsFailed(k) => result = "err"
                /\ result = "ok" =>
                      /\ PositionOf(k) # 0
                      /\ sent[k] # << >>
                      /\ sent[k][Len(sent[k])].ok
                      /\ adrs[PositionOf(k)] # input[k]

C2_Witness ==
    /\ pc = "done"
    /\ result = "err"
    /\ \E k \in InputIndices :
          /\ ~is_invalid_zip(input[k].zip)
          /\ Len(sent[k]) = 2
          /\ AllAttemptsFailed(k)

\* C3: an address with a zip of the is_invalid_zip denylist whose
\* standardization fails is removed from the list, nothing more is
\* submitted for it and no error is returned because of it.
C3_DenylistedRemoved ==
    \A k \in InputIndices :
        (is_invalid_zip(input[k].zip) /\ sent[k] # << >> /\ ~sent[k][1].ok) =>
            /\ PositionOf(k) = 0
            /\ Len(sent[k]) = 1

\* the candidate the protocol prefers among those that are not
\* Range-qualified: the first without addressLine2, else the first
Preferred(list) ==
    LET cands == NotRange(list)
        plain == SelectSeq(cands, LAMBDA v : v.addressLine2 = None)
    IN  IF plain # << >> THEN Head(plain) ELSE Head(cands)

\* C4: of several candidates the one that overwrites the address is the
\* first without a secondary-address component, and the first candidate
\* only if all have one.
C4_PrefersNoSecondary ==
    (lastCall.made /\ lastCall.ok) =>
        lastCall.after = from(lastCall.before, Preferred(lastCall.response.addressList))

\* C5: standardize_address overwrites the address only from a candidate of
\* a SUCCESS response that is not Range-qualified; a non-success status,
\* an empty list or a list of Range-qualified candidates only is an error
\* that leaves the five fields unchanged.
C5_OverwriteOnlyOnSuccess ==
    lastCall.made =>
        LET rsp == lastCall.response
            list == rsp.addressList
            usable == /\ rsp.transport = "ok"
                      /\ rsp.resultStatus = "SUCCESS"
                      /\ \E n \in 1..Len(list) : ~Contains(list[n].addressLine1, L_Range)
        IN  /\ lastCall.ok <=> usable
            /\ ~lastCall.ok => lastCall.after = lastCall.before
            /\ lastCall.ok =>
                  \E n \in 1..Len(list) :
                      /\ ~Contains(list[n].addressLine1, L_Range)
                      /\ lastCall.after.address1 = list[n].addressLine1
                      /\ lastCall.after.address2 = list[n].addressLine2
                      /\ lastCall.after.city = list[n].city
                      /\ lastCall.after.state = list[n].state
                      /\ lastCall.after.zip = list[n].zip5 \o <<"-">> \o list[n].zip4

C5_Witness ==
    /\ lastCall.made
    /\ ~lastCall.ok
    /\ lastCall.response.transport = "ok"
    /\ lastCall.response.resultStatus = "SUCCESS"
    /\ Len(lastCall.response.addressList) = 2
    /\ lastCall.after = lastCall.before

(***************************************************************************)
(* senate.rs / house.rs: the address-fetching pass and its checkpoint      *)
(***************************************************************************)
L_146_N_STATE_AVENUE == <<"1", "4", "6", " ", "N", " ", "S", "T", "A", "T", "E", " ", "A", "V", "E", "N", "U", "E">>
L_SOMERTON == <<"S", "O", "M", "E", "R", "T", "O", "N">>
L_27_INDEPENDENCE_AVE_SE == <<"2", "7", " ", "I", "N", "D", "E", "P", "E", "N", "D", "E", "N", "C", "E", " ", "A", "V", "E", " ", "S", "E">>
L_20003 == <<"2", "0", "0", "0", "3">>
L_143_CANNON_HOB == <<"1", "4", "3", " ", "C", "A", "N", "N", "O", "N", " ", "H", "O", "B">>
L_2_Constitution_Ave == <<"2", " ", "C", "o", "n", "s", "t", "i", "t", "u", "t", "i", "o", "n", " ", "A", "v", "e">>
L_SR == <<"S", "R", "-">>
L_RUSSELL_SOB == <<" ", "R", "U", "S", "S", "E", "L", "L", " ", "S", "O", "B">>
L_Suite_SR_374 == <<"S", "u", "i", "t", "e", " ", "S", "R", "-", "3", "7", "4">>

\* an address line of 41 characters, "1 AAA...A"
L_1_A41 == <<"1", " ">> \o [k \in 1..39 |-> "A"]

\* Option<Vec<Address>>
NoAdrs == [some |-> FALSE, v |-> << >>]
SomeVec(v) == [some |-> TRUE, v |-> v]

\* str::starts_with
StartsWith(s, pat) == Len(pat) <= Len(s) /\ SubSeq(s, 1, Len(pat)) = pat

\* str::find: the 0-based index of the first occurrence, -1 for None
Find(s, pat) ==
    IF Contains(s, pat)
    THEN (CHOOSE i \in 1..Len(s) :
             /\ SubSeq(s, i, i + Len(pat) - 1) = pat
             /\ \A j \in 1..(i - 1) : SubSeq(s, j, j + Len(pat) - 1) # pat) - 1
    ELSE -1

\* filter_invalid_addresses, for one address: Remove or the address kept
FilterOne(adr) ==
    IF adr.address1 = L_146_N_STATE_AVENUE /\ adr.city = L_SOMERTON
    THEN << >>
    ELSE IF adr.address1 = L_27_INDEPENDENCE_AVE_SE /\ adr.zip = L_20003
    THEN <<[adr EXCEPT !.address1 = L_143_CANNON_HOB, !.city = L_WASHINGTON,
                       !.state = L_DC, !.zip = L_20515]>>
    ELSE <<adr>>

RECURSIVE filter_invalid_addresses(_)
filter_invalid_addresses(v) ==
    IF v = << >> THEN << >>
    ELSE FilterOne(Head(v)) \o filter_invalid_addresses(Tail(v))

\* validate_addresses: TRUE is Ok(()), FALSE an Err
validate_addresses(v) ==
    \A k \in 1..Len(v) :
        /\ v[k].address1 # << >>
        /\ v[k].city # << >>
        /\ v[k].state # << >>
        /\ v[k].zip # << >>

\* fetch_and_parse_person, for one address of the locations of Hickenlooper
HickenlooperOne(adr) ==
    IF adr.address1 = <<"~">>
    THEN << >>
    ELSE IF /\ StartsWith(adr.address1, L_2_Constitution_Ave)
            /\ IsSome(adr.address2)
            /\ Find(adr.address2, L_SR) # -1
    THEN <<[adr EXCEPT
              !.address1 = SubSeq(adr.address2, Find(adr.address2, L_SR) + 4,
                                  Len(adr.address2)) \o L_RUSSELL_SOB,
              !.address2 = None]>>
    ELSE <<adr>>

RECURSIVE HickenlooperEdit(_)
HickenlooperEdit(v) ==
    IF v = << >> THEN << >>
    ELSE HickenlooperOne(Head(v)) \o HickenlooperEdit(Tail(v))

\* url_pathss of Senate::fetch_addresses, url_paths of House::fetch_adrs and
\* the fixed urls of the entity fetched from several pages
SenateUrlPaths == 11
HouseUrlPaths == 8
FixedUrls == 2

MaxPersons == 3

\* a Person: name picks the match arm, url_known is Some(_), adrs
Person(n, u, a) == [name |-> n, url_known |-> u, adrs |-> a]

\* addresses a page yields, before standardization
PageAdrs ==
    { <<Address(L_1_A_ST, None, L_AUSTIN, L_TX, L_78701),
        Address(L_STE_2, L_1_A_ST, L_AUSTIN, L_TX, L_78701)>>,
      <<Address(L_1_A_ST, None, L_AUSTIN, L_TX, L_78701)>>,
      <<Address(L_1_A_ST, None, << >>, L_TX, L_78701)>>,
      <<Address(L_27_INDEPENDENCE_AVE_SE, None, L_AUSTIN, L_TX, L_20003),
        Address(L_1_A_ST, None, L_AUSTIN, L_TX, L_89801)>>,
      <<Address(L_1_A41, None, L_AUSTIN, L_TX, L_78701)>> }

\* what fetching and parsing one page gives: a failed fetch ("err"), no
\* address lines or no address ("none"), a panic of the extractor, or the
\* addresses parsed
PageOutcomes ==
    {[kind |-> k, adrs |-> << >>] : k \in {"err", "none", "panic"}}
        \cup {[kind |-> "adrs", adrs |-> v] : v \in PageAdrs}

\* addresses an earlier run has stored for an entity
StoredAdrs ==
    <<Address(L_1_A_ST, None, L_AUSTIN, L_TX, L_20515_0001),
      Address(L_PO_BOX_7, None, L_AUSTIN, L_TX, L_20515_0001)>>

PersonPool(f) ==
    IF f = "senate"
    THEN {Person(n, FALSE, a) : n \in {"Hickenlooper", "Other"},
                                a \in {NoAdrs, SomeVec(StoredAdrs)}}
    ELSE {Person(n, u, a) : n \in {"Fitzpatrick", "Other"}, u \in BOOLEAN,
                            a \in {NoAdrs, SomeVec(StoredAdrs)}}

\* persons[i].adrs = a, i 0-based
SetAdrs(col, i, a) == [col EXCEPT ![i + 1].adrs = a]

\* clone_url_known(&self.persons)
clone_url_known(col) == [k \in 1..Len(col) |-> col[k].url_known]

\* the `?` after standardize_addresses: an Err is returned to the caller
Propagates_swallowed(res) == FALSE
Propagates(res) == res = "err"

\* the number of urls tried for a person
UrlCount(per) ==
    IF flow = "senate"
    THEN IF per.name = "Hickenlooper" THEN 1 ELSE SenateUrlPaths
    ELSE IF per.url_known THEN 1
    ELSE IF per.name = "Fitzpatrick" THEN FixedUrls
    ELSE HouseUrlPaths

\* the collection whose unresolved entities the loop visits
Visited == IF flow = "senate" THEN persons ELSE clone

Unresolved_all == cur..(Len(Visited) - 1)

Unresolved == {i \in cur..(Len(Visited) - 1) : ~At(Visited, i).adrs.some}

InitFetch ==
    /\ flow \in {"senate", "house"}
    /\ persons \in UNION {[1..n -> PersonPool(flow)] : n \in 1..MaxPersons}
    /\ clone = persons
    /\ disk = persons
    /\ disk_url = clone_url_known(persons)
    /\ cur = 0
    /\ fpc = "next"
    /\ path = 0
    /\ acc = << >>
    /\ writes = 0
    /\ fresult = "none"
    /\ StdIdle
    /\ ParseIdle

SetFetch(p, c, d, u, i, l, n, a, w, r) ==
    /\ persons' = p
    /\ clone' = c
    /\ disk' = d
    /\ disk_url' = u
    /\ cur' = i
    /\ fpc' = l
    /\ path' = n
    /\ acc' = a
    /\ writes' = w
    /\ fresult' = r
    /\ UNCHANGED flow

\* the pass ends without checkpoint write: Err(_) or a panic
Abort(r) ==
    SetFetch(persons, clone, disk, disk_url, cur, "done", path, acc, writes, r)

\* the next url of the same person
NextUrl(a) ==
    SetFetch(persons, clone, disk, disk_url, cur, "fetch", path + 1, a, writes, fresult)

\* House: the end of the loop body, with persons p: the check for missing
\* addresses, then the checkpoint save
HouseEndBody(p) ==
    IF ~At(p, cur).adrs.some
    THEN Abort("err")
    ELSE SetFetch(p, clone, p, clone_url_known(p), cur + 1, "next", 0, << >>,
                  writes + 1, fresult)

\* the page gave no addresses (None)
Miss ==
    IF path + 1 < UrlCount(At(persons, cur))
    THEN NextUrl(acc)
    ELSE IF flow = "senate"
    THEN SetFetch(persons, clone, disk, disk_url, cur + 1, "next", 0, << >>,
                  writes, fresult)
    ELSE IF At(persons, cur).name = "Fitzpatrick" /\ ~At(persons, cur).url_known
    THEN HouseEndBody(SetAdrs(persons, cur, SomeVec(acc)))
    ELSE HouseEndBody(persons)

\* House: fetch_prs_std_adrs returned Some(v)
HouseHit(v) ==
    LET per == At(persons, cur)
    IN  IF per.url_known
        THEN HouseEndBody(SetAdrs(persons, cur, SomeVec(v)))
        ELSE IF per.name = "Fitzpatrick"
        THEN IF path + 1 < FixedUrls
             THEN NextUrl(acc \o v)
             ELSE HouseEndBody(SetAdrs(persons, cur, SomeVec(acc \o v)))
        ELSE HouseEndBody([SetAdrs(persons, cur, SomeVec(v))
                              EXCEPT ![cur + 1].url_known = TRUE])

\* Senate: process_parsed_addresses after standardize_addresses returned Ok
SenateSave(v) ==
    LET saved == SetAdrs(clone, cur, SomeVec(v))
    IN  SetFetch(SetAdrs(persons, cur, SomeVec(v)), saved, saved, disk_url,
                 cur + 1, "next", 0, << >>, writes + 1, fresult)

\* standardize_addresses is entered with v
StartStd(v) ==
    /\ input' = v
    /\ adrs' = v
    /\ origs' = [k \in 1..Len(v) |-> k]
    /\ idx' = Len(v) - 1
    /\ pc' = "loop"
    /\ result' = "none"
    /\ sent' = [k \in 1..Len(v) |-> << >>]
    /\ lastCall' = NoCall

\* its locals are dropped
EndStd ==
    /\ input' = << >>
    /\ adrs' = << >>
    /\ origs' = << >>
    /\ idx' = -1
    /\ pc' = "done"
    /\ result' = "none"
    /\ sent' = << >>
    /\ lastCall' = << >>

\* the loop head: the next person without addresses
BeginPerson ==
    /\ fpc = "next"
    /\ Unresolved # {}
    /\ LET i == CHOOSE j \in Unresolved : \A k \in Unresolved : j <= k
       IN  SetFetch(persons, clone, disk, disk_url, i, "fetch", 0, << >>, writes, fresult)
    /\ UNCHANGED <<stdVars, parseVars>>

\* no person is left: Ok(())
PassReturn ==
    /\ fpc = "next"
    /\ Unresolved = {}
    /\ SetFetch(persons, clone, disk, disk_url, cur, "done", path, acc, writes, "ok")
    /\ UNCHANGED <<stdVars, parseVars>>

\* one url is fetched and parsed, up to the call of standardize_addresses
FetchPage ==
    /\ fpc = "fetch"
    /\ \E o \in PageOutcomes :
          LET per == At(persons, cur)
              json == flow = "senate" /\ per.name = "Hickenlooper"
              prepared == IF json THEN filter_invalid_addresses(HickenlooperEdit(o.adrs))
                          ELSE IF flow = "senate" THEN filter_invalid_addresses(o.adrs)
                          ELSE o.adrs
          IN  /\ json => o.kind \in {"err", "adrs"}
              /\ CASE o.kind = "err" -> Abort("err") /\ UNCHANGED stdVars
                   [] o.kind = "panic" -> Abort("panic") /\ UNCHANGED stdVars
                   [] o.kind = "none" -> Miss /\ UNCHANGED stdVars
                   [] o.kind = "adrs" ->
                        IF flow = "senate" /\ ~validate_addresses(prepared)
                        THEN Abort("err") /\ UNCHANGED stdVars
                        ELSE /\ StartStd(prepared)
                             /\ SetFetch(persons, clone, disk, disk_url, cur, "std",
                                         path, acc, writes, fresult)
    /\ UNCHANGED parseVars

\* standardize_addresses has returned
AfterStd ==
    /\ fpc = "std"
    /\ pc = "done"
    /\ IF Propagates(result) THEN Abort("err")
       ELSE IF flow = "senate" THEN SenateSave(adrs)
       ELSE IF Len(adrs) < 2 THEN Miss
       ELSE HouseHit(adrs)
    /\ EndStd
    /\ UNCHANGED parseVars

NextFetch ==
    \/ BeginPerson
    \/ PassReturn
    \/ FetchPage
    \/ AfterStd
    \/ StdAttempt
    \/ StdRetry
    \/ StdReturn

SpecFetch == InitFetch /\ [][NextFetch]_vars

(***************************************************************************)
(* Claims about parse_addresses                                            *)
(***************************************************************************)
Indices(ls) == 0..(Len(ls) - 1)

ZipIndices(ls) == {i \in Indices(ls) : is_zip(At(ls, i))}

Zip5Indices(ls) == {i \in Indices(ls) : is_zip5(At(ls, i))}

\* indices strictly above the city line of a zip at index i that hold a
\* line of address-line-1 shape or PO-box shape
QualifyingAbove(ls, i) == {k \in 0..(i - 3) : IsAdr1Line(At(ls, k))}

\* the space-joined lines from index a to index b, None if there is none
RECURSIVE SpaceJoined(_, _, _)
SpaceJoined(ls, a, b) ==
    IF a > b THEN None
    ELSE IF a = b THEN At(ls, a)
    ELSE At(ls, a) \o <<" ">> \o SpaceJoined(ls, a + 1, b)

\* adr is the address of the zip at index i taking line a as address1
IsAddressOf(adr, ls, i, a) ==
    /\ adr.zip = At(ls, i)
    /\ adr.state = At(ls, i - 1)
    /\ adr.city = At(ls, i - 2)
    /\ adr.address1 = At(ls, a)
    /\ adr.address2 = SpaceJoined(ls, a + 1, i - 3)

\* the single address expected for the only zip line, at index i
OneAddressFor(ls, i) ==
    /\ parsed.st = "some"
    /\ Len(parsed.adrs) = 1
    /\ \E a \in QualifyingAbove(ls, i) : IsAddressOf(parsed.adrs[1], ls, i, a)

\* C6 as stated: a sequence with exactly one 5-digit zip line, preceded by
\* state and city, with a qualifying address1 line above the city, yields
\* exactly one address made of those lines, address2 being the space-joined
\* lines between address1 and city (absent iff there are none).
C6_OneZip5OneAddress ==
    (parsed # NotRun /\ Cardinality(Zip5Indices(lnes)) = 1) =>
        \A i \in Zip5Indices(lnes) :
            QualifyingAbove(lnes, i) # {} => OneAddressFor(lnes, i)

\* C6 amended: the same for a sequence whose only zip line (5-digit or 5+4
\* form) is not on the denylist of is_invalid_zip.
C6_OneZipOneAddress ==
    (parsed # NotRun /\ Cardinality(ZipIndices(lnes)) = 1) =>
        \A i \in ZipIndices(lnes) :
            (~is_invalid_zip(At(lnes, i)) /\ QualifyingAbove(lnes, i) # {})
                => OneAddressFor(lnes, i)

C6_Witness ==
    /\ parsed.st = "some"
    /\ Cardinality(ZipIndices(lnes)) = 1
    /\ Len(parsed.adrs) = 1
    /\ parsed.adrs[1].address1 = L_PO_BOX_7
    /\ parsed.adrs[1].address2 = L_AUSTIN
    /\ parsed.adrs[1].zip = L_20515_0001

\* the zip index that precedes the zip at index z, -1 if there is none
PrevZip(ls, z) ==
    IF \E y \in ZipIndices(ls) : y < z
    THEN CHOOSE y \in ZipIndices(ls) :
            y < z /\ \A x \in ZipIndices(ls) : x < z => x <= y
    ELSE -1

\* ls is a concatenation of blocks address1, address2 lines, city, state,
\* zip with distinct zips that are not denylisted
IsBlockSeq(ls) ==
    /\ ls # << >>
    /\ Len(ls) - 1 \in ZipIndices(ls)
    /\ \A z \in ZipIndices(ls) :
          /\ ~is_invalid_zip(At(ls, z))
          /\ z - PrevZip(ls, z) >= 4
          /\ IsAdr1Line(At(ls, PrevZip(ls, z) + 1))
    /\ \A y, z \in ZipIndices(ls) : y # z => At(ls, y) # At(ls, z)

\* C7: the scan continues after the first anchor: a sequence of address
\* blocks with distinct zips that are not denylisted yields exactly one
\* address per zip line, and the LONGWORTH/SYRACUSE lines yield exactly the
\* two addresses of the example.
C7_OneAddressPerZip ==
    /\ (parsed # NotRun /\ IsBlockSeq(lnes)) =>
          /\ parsed.st = "some"
          /\ Len(parsed.adrs) = Cardinality(ZipIndices(lnes))
          /\ {parsed.adrs[k].zip : k \in 1..Len(parsed.adrs)}
                = {At(lnes, z) : z \in ZipIndices(lnes)}
    /\ (parsed # NotRun /\ lnes = LongworthSyracuse) =>
          parsed = SomeAdrs(<<
              Address(L_1022_LONGWORTH_HOB, None, L_WASHINGTON, L_DC, L_20515),
              Address(L_440_SOUTH_WARREN_STREET, L_SUITE_706, L_SYRACUSE,
                      L_NY, L_13202)>>)

C7_Witness ==
    /\ lnes = LongworthSyracuse
    /\ IsBlockSeq(lnes)
    /\ parsed.st = "some"
    /\ Len(parsed.adrs) = 2

\* the line the backward search locates for the zip at index i
Located(ls, i) ==
    CHOOSE j \in QualifyingAbove(ls, i) : \A k \in QualifyingAbove(ls, i) : k <= j

AnchorIndices(ls) == {i \in ZipIndices(ls) : ~is_invalid_zip(At(ls, i))}

\* the extraction returned an address for the zip at i whose address1 is
\* line a
BuiltFrom(ls, i, a) ==
    \E k \in 1..Len(parsed.adrs) : IsAddressOf(parsed.adrs[k], ls, i, a)

\* C8 as stated: whenever the line before the located address1 line has
\* the address-line-1 shape, that earlier line is address1, whether the
\* located line has the address-line-1 shape or the PO-box shape.
C8_EarlierLinePreferredAlways ==
    parsed.st = "some" =>
        \A i \in AnchorIndices(lnes) :
            LET j == Located(lnes, i)
            IN  (j > 0 /\ re_address1(At(lnes, j - 1))) => BuiltFrom(lnes, i, j - 1)

\* C8 amended: the earlier line is address1 when the located line has the
\* address-line-1 shape and so has the line before it; a located line of
\* PO-box shape stays address1 whatever precedes it.
C8_EarlierLinePreferredUnlessPoBox ==
    parsed.st = "some" =>
        \A i \in AnchorIndices(lnes) :
            LET j == Located(lnes, i)
            IN  /\ (j > 0 /\ re_address1(At(lnes, j)) /\ re_address1(At(lnes, j - 1)))
                      => BuiltFrom(lnes, i, j - 1)
                /\ re_po_box(At(lnes, j)) => BuiltFrom(lnes, i, j)

C8_Witness ==
    /\ parsed.st = "some"
    /\ lnes = <<L_1_A_ST, L_1_A_ST, L_AUSTIN, L_TX, L_78701>>
    /\ parsed.adrs[1].address2 = L_1_A_ST

\* C9: a zip anchor without a line of address-line-1 or PO-box shape above
\* its city line makes the extraction return None, never panic, wherever
\* the zip line is, the first lines included.
C9_NoAddress1IsNone ==
    (parsed # NotRun /\ \E i \in AnchorIndices(lnes) : QualifyingAbove(lnes, i) = {})
        => parsed.st = "none"

(***************************************************************************)
(* Claims about the Checkpoint Store                                       *)
(***************************************************************************)
\* an address as standardize_address leaves it: taken from a candidate
IsStandardized(a) == \E c \in CandidatePool : a = from(a, c)

\* the step is a checkpoint write
IsWrite == writes' # writes

Begins == fpc = "next" /\ fpc' = "fetch"

\* C11: an entity that has addresses in the loaded checkpoint, or that got
\* them earlier in the run, is never fetched, standardized or modified; the
\* loop takes the unresolved entities in collection order, the first one
\* taken being the first unresolved entity of the collection.
C11_ResumeSkipsResolved ==
    [][ /\ \A i \in 1..Len(persons) :
              persons[i].adrs.some =>
                  /\ persons'[i] = persons[i]
                  /\ disk'[i].adrs = disk[i].adrs
        /\ fpc' \in {"fetch", "std"} => ~At(persons', cur').adrs.some
        /\ Begins =>
              /\ cur' >= cur
              /\ \A j \in cur..(cur' - 1) : At(persons, j).adrs.some
      ]_vars

C11_Witness ==
    /\ fpc = "fetch"
    /\ cur = 2
    /\ writes = 1
    /\ Len(persons) = 3
    /\ persons[1].adrs.some
    /\ persons[1].adrs # SomeVec(StoredAdrs)
    /\ persons[2].adrs = SomeVec(StoredAdrs)
    /\ disk[2].adrs = SomeVec(StoredAdrs)

(***************************************************************************)
(* Claims about the address invariant                                      *)
(***************************************************************************)
AddressInvariant(a) ==
    /\ a.address1 # << >>
    /\ a.city # << >>
    /\ a.state # << >>
    /\ a.zip # << >>
    /\ is_zip(a.zip)
    /\ is_valid(a)

\* C12: every address that has passed validate_addresses (the addresses
\* handed to standardize_addresses by process_parsed_addresses) and every
\* address of the checkpoint has non-empty address1, city, state and zip, a
\* zip of 5 digits or 5 digits, a hyphen and 4 digits, and fields within the
\* length bounds of Address::is_valid.
C12_AddressInvariant ==
    /\ (flow = "senate" /\ fpc = "std") =>
          \A k \in 1..Len(input) : AddressInvariant(input[k])
    /\ \A i \in 1..Len(disk) :
          disk[i].adrs.some =>
              \A k \in 1..Len(disk[i].adrs.v) : AddressInvariant(disk[i].adrs.v[k])

(***************************************************************************)
(* Claims about the denylist and the order of the extracted addresses      *)
(***************************************************************************)
DenylistedIndices(ls) == {i \in ZipIndices(ls) : is_invalid_zip(At(ls, i))}

\* ls without its last line
Front(ls) == SubSeq(ls, 1, Len(ls) - 1)

\* C17: no extracted address has a denylisted zip or is built on a
\* denylisted zip line; a sequence whose zip lines are all denylisted
\* gives None and never a panic; a denylisted zip line after a sequence of
\* address blocks leaves one address per zip of the blocks.
C17_DenylistedNeverAnchors ==
    parsed # NotRun =>
        /\ parsed.st = "some" =>
              /\ \A k \in 1..Len(parsed.adrs) : ~is_invalid_zip(parsed.adrs[k].zip)
              /\ \A i \in DenylistedIndices(lnes) :
                    \A a \in Indices(lnes) : ~BuiltFrom(lnes, i, a)
        /\ AnchorIndices(lnes) = {} => parsed = NoAddress
        /\ (lnes # << >> /\ Len(lnes) - 1 \in DenylistedIndices(lnes)
                /\ IsBlockSeq(Front(lnes))) =>
              /\ parsed.st = "some"
              /\ {parsed.adrs[k].zip : k \in 1..Len(parsed.adrs)}
                    = {At(lnes, z) : z \in AnchorIndices(lnes)}

C17_Witness ==
    /\ lnes = <<L_1_A_ST, L_AUSTIN, L_TX, L_78701, L_89801>>
    /\ parsed = SomeAdrs(<<Address(L_1_A_ST, None, L_AUSTIN, L_TX, L_78701)>>)

\* C18: the list parse_addresses returns is strictly increasing in the
\* order of Address (so it is sorted and no two of its addresses are equal
\* in all five fields), and the results of two extractions of the same
\* lines, concatenated, sorted and deduplicated, are the result of one.
C18_SortedNoDuplicates ==
    parsed.st = "some" =>
        /\ \A k \in 1..(Len(parsed.adrs) - 1) :
              AddressLess(parsed.adrs[k], parsed.adrs[k + 1])
        /\ \A j, k \in 1..Len(parsed.adrs) :
              parsed.adrs[j] = parsed.adrs[k] => j = k
        /\ dedup(sort_unstable(parsed.adrs \o parsed.adrs)) = parsed.adrs

C18_Witness ==
    /\ parsed.st = "some"
    /\ Cardinality(ZipIndices(lnes)) = 2
    /\ Len(parsed.adrs) = 1
    /\ IsSome(parsed.adrs[1].address2)

C18_WitnessSorted ==
    /\ parsed.st = "some"
    /\ Len(parsed.adrs) = 2
    /\ parsed.adrs[1].zip = L_78701
    /\ parsed.adrs[2].zip = L_13202

(***************************************************************************)
(* Specification of the zip tests: is_zip, is_zip5 and is_zip10 applied to *)
(* one string.                                                             *)
(***************************************************************************)
\* the cases of test_is_zip_valid and of test_is_zip_invalid,
\* test_is_zip5_invalid and test_is_zip10_invalid
ZipTestValid ==
    { <<"1", "2", "3", "4", "5">>,
      <<"6", "7", "8", "9", "0">>,
      <<"1", "2", "3", "4", "5", "-", "6", "7", "8", "9">>,
      <<"9", "8", "7", "6", "5", "-", "4", "3", "2", "1">> }

ZipTestInvalid ==
    { <<"1", "2", "3", "4">>,
      <<"1", "2", "3", "4", "5", "6">>,
      <<"1", "2", "-", "5", "6", "7">>,
      <<"A", "B", "C", "D", "E">>,
      <<"1", "2", "3", "4", "-", "5", "6", "7", "8">>,
      <<"1", "2", "3", "4", "5", "-", "6", "7", "8">>,
      <<"1", "2", "3", "4", "5", "-", "6", "7", "8", "9", "0">>,
      <<"1", "2", "3", "4", "5", " ", "6", "7", "8", "9">>,
      <<"1", "2", "a", "4", "5", "-", "6", "7", "8", "9">>,
      <<"1", "2", "3", "4", "5", "-", "6", "7", "8", "a">>,
      <<"1", "2", "3", "4", "5", "6", "7", "8", "9">>,
      <<"2", "0", "2", "-", "2", "2", "5", "-", "4", "7", "3", "5">> }

MaxZipShort == 6

ZipAlphabet == {"1", "-", " ", "a", NonAscii}

\* five or so leading characters, a separator, four or so trailing ones
ZipHeads == {<<"1", "2", "3", "4", "5">>, <<"1", "2", "3", "4">>, <<"1", "2", "a", "4", "5">>, <<"1", "2", "3", "4", "5", "6">>, <<"1", "2", "3", NonAscii>>, <<"1", "2", "3", "4", NonAscii>>}
ZipSeparators == {<< >>, <<"-">>, <<" ">>, <<"1">>, <<"a">>, <<NonAscii>>}
ZipTails == {<<"6", "7", "8", "9">>, <<"6", "7", "8">>, <<"6", "7", "8", "9", "0">>, <<"6", "7", "8", "a">>, <<"6", "7", NonAscii>>}

ZipInputs ==
    SeqsUpTo(ZipAlphabet, MaxZipShort)
        \cup {h \o s \o t : h \in ZipHeads, s \in ZipSeparators, t \in ZipTails}
        \cup ZipTestValid \cup ZipTestInvalid

InitZip ==
    /\ zin \in ZipInputs
    /\ zout = NoZip
    /\ op = NoOp
    /\ once = NoEdit
    /\ twice = NoEdit
    /\ lnes = << >>
    /\ parsed = NotRun
    /\ StdIdle
    /\ FetchIdle

IsZip ==
    /\ ~zout.run
    /\ zout' = [run |-> TRUE, zip |-> is_zip(zin), zip5 |-> is_zip5(zin),
                zip10 |-> is_zip10(zin)]
    /\ UNCHANGED <<zin, op, once, twice, lnes, parsed, stdVars, fetchVars>>

NextZip == IsZip

SpecZip == InitZip /\ [][NextZip]_vars

\* s is n ASCII digits
AsciiDigits(s, n) == Len(s) = n /\ \A i \in 1..n : s[i] \in Digits

FiveDigits(s) == AsciiDigits(s, 5)

FivePlusFour(s) ==
    /\ Len(s) = 10
    /\ AsciiDigits(SubSeq(s, 1, 5), 5)
    /\ s[6] = "-"
    /\ AsciiDigits(SubSeq(s, 7, 10), 4)

\* C19: is_zip is true exactly of five ASCII digits and of five ASCII
\* digits, a hyphen and four ASCII digits, false of every other string (the
\* invalid cases of the tests among them), and equal to is_zip5 or is_zip10.
C19_IsZipExact ==
    zout.run =>
        /\ zout.zip = (FiveDigits(zin) \/ FivePlusFour(zin))
        /\ zout.zip = (zout.zip5 \/ zout.zip10)
        /\ zout.zip5 = FiveDigits(zin)
        /\ zout.zip10 = FivePlusFour(zin)
        /\ zin \in ZipTestValid => zout.zip
        /\ zin \in ZipTestInvalid => ~zout.zip

C19_Witness ==
    /\ zout.run
    /\ zin = <<"1", "2", "3", "4", "5", "-", "6", "7", "8", "9">>
    /\ zout.zip /\ zout.zip10 /\ ~zout.zip5

C19_WitnessRejected ==
    /\ zout.run
    /\ zin = <<"1", "2", "3", "4", "5", " ", "6", "7", "8", "9">>
    /\ ~zout.zip

(***************************************************************************)
(* The Line Editor (src/prsr.rs): string functions of the standard library *)
(***************************************************************************)
\* str::ends_with
EndsWith(s, pat) ==
    Len(pat) <= Len(s) /\ SubSeq(s, Len(s) - Len(pat) + 1, Len(s)) = pat

\* str::trim_start, str::trim_end, str::trim
RECURSIVE TrimStart(_)
TrimStart(s) ==
    IF s # << >> /\ Head(s) \in Whitespace THEN TrimStart(Tail(s)) ELSE s

RECURSIVE TrimEnd(_)
TrimEnd(s) ==
    IF s # << >> /\ s[Len(s)] \in Whitespace
    THEN TrimEnd(SubSeq(s, 1, Len(s) - 1))
    ELSE s

Trim(s) == TrimEnd(TrimStart(s))

\* str::trim_end_matches(c)
RECURSIVE TrimEndMatches(_, _)
TrimEndMatches(s, c) ==
    IF s # << >> /\ s[Len(s)] = c
    THEN TrimEndMatches(SubSeq(s, 1, Len(s) - 1), c)
    ELSE s

\* str::replace(pat, rep): every occurrence, left to right, not overlapping
RECURSIVE Replace(_, _, _)
Replace(s, pat, rep) ==
    IF s = << >> THEN << >>
    ELSE IF StartsWith(s, pat)
    THEN rep \o Replace(SubSeq(s, Len(pat) + 1, Len(s)), pat, rep)
    ELSE <<Head(s)>> \o Replace(Tail(s), pat, rep)

\* str::split(c): the fragments between the occurrences of character c
RECURSIVE Split(_, _)
Split(s, c) ==
    IF ~Contains(s, <<c>>) THEN <<s>>
    ELSE LET i == Find(s, <<c>>)
         IN  <<SubSeq(s, 1, i)>> \o Split(SubSeq(s, i + 2, Len(s)), c)

\* str::split_terminator(c): as split, without an empty last fragment
SplitTerminator(s, c) ==
    LET f == Split(s, c)
    IN  IF f[Len(f)] = << >> THEN SubSeq(f, 1, Len(f) - 1) ELSE f

\* str::split_whitespace: the non-empty fragments between whitespace
RECURSIVE SplitWhitespace(_)
SplitWhitespace(s) ==
    LET t == TrimStart(s)
    IN  IF t = << >> THEN << >>
        ELSE LET n == CHOOSE k \in 1..Len(t) :
                        /\ \A j \in 1..k : t[j] \notin Whitespace
                        /\ k = Len(t) \/ t[k + 1] \in Whitespace
             IN  <<SubSeq(t, 1, n)>> \o SplitWhitespace(SubSeq(t, n + 1, Len(t)))

\* Vec::insert(idx, x), Vec::insert of several in order, idx 0-based
Insert(v, i, x) == SubSeq(v, 1, i) \o <<x>> \o SubSeq(v, i + 1, Len(v))
Splice(v, i, xs) == SubSeq(v, 1, i) \o xs \o SubSeq(v, i + 2, Len(v))

\* v[i] = x
Set(v, i, x) == [v EXCEPT ![i + 1] = x]

\* iter().map(f) and filter, for the functions used below
RECURSIVE TrimAll(_)
TrimAll(v) == IF v = << >> THEN << >> ELSE <<Trim(Head(v))>> \o TrimAll(Tail(v))

RECURSIVE NonEmpty(_)
NonEmpty(v) ==
    IF v = << >> THEN << >>
    ELSE IF Head(v) = << >> THEN NonEmpty(Tail(v))
    ELSE <<Head(v)>> \o NonEmpty(Tail(v))

(***************************************************************************)
(* The Line Editor: the operations on Vec<String>.  A loop                 *)
(* `for idx in (0..lnes.len()).rev()` is the operator ..._from(ls, idx),   *)
(* entered with the last index.                                            *)
(***************************************************************************)
\* the lines a line with '|' is replaced by
BarFragments(lne) ==
    TrimAll(NonEmpty(SplitTerminator(lne, "|")))

RECURSIVE edit_split_bar_from(_, _)
edit_split_bar_from(ls, i) ==
    IF i < 0 THEN ls
    ELSE IF Contains(At(ls, i), <<"|">>)
    THEN edit_split_bar_from(Splice(ls, i, BarFragments(At(ls, i))), i - 1)
    ELSE edit_split_bar_from(ls, i - 1)

edit_split_bar(ls) == edit_split_bar_from(ls, Len(ls) - 1)

\* the lines a line with ',' is replaced by
CommaFragments(lne) == TrimAll(Split(lne, ","))

RECURSIVE edit_split_comma_from(_, _)
edit_split_comma_from(ls, i) ==
    IF i < 0 THEN ls
    ELSE IF Contains(At(ls, i), <<",">>)
    THEN edit_split_comma_from(Splice(ls, i, CommaFragments(At(ls, i))), i - 1)
    ELSE edit_split_comma_from(ls, i - 1)

edit_split_comma(ls) == edit_split_comma_from(ls, Len(ls) - 1)

RECURSIVE edit_drain_after_last_zip_from(_, _)
edit_drain_after_last_zip_from(ls, i) ==
    IF i < 0 THEN ls
    ELSE IF is_zip(At(ls, i)) THEN SubSeq(ls, 1, i + 1)
    ELSE edit_drain_after_last_zip_from(ls, i - 1)

edit_drain_after_last_zip(ls) == edit_drain_after_last_zip_from(ls, Len(ls) - 1)

RECURSIVE edit_dot(_)
edit_dot(ls) ==
    IF ls = << >> THEN << >>
    ELSE <<Replace(Head(ls), <<".">>, << >>)>> \o edit_dot(Tail(ls))

RECURSIVE edit_single_comma(_)
edit_single_comma(ls) ==
    IF ls = << >> THEN << >>
    ELSE IF Head(ls) = <<",">> THEN edit_single_comma(Tail(ls))
    ELSE <<Head(ls)>> \o edit_single_comma(Tail(ls))

\* `for idx in (1..lnes.len()).rev()`, left at the first line joined
RECURSIVE edit_zip_disjoint_from(_, _)
edit_zip_disjoint_from(ls, i) ==
    IF i < 1 THEN ls
    ELSE IF StrLen(At(ls, i)) < 5 /\ \A k \in 1..Len(At(ls, i)) : At(ls, i)[k] \in Digits
    THEN Remove(Set(ls, i - 1, At(ls, i - 1) \o At(ls, i)), i)
    ELSE edit_zip_disjoint_from(ls, i - 1)

edit_zip_disjoint(ls) == edit_zip_disjoint_from(ls, Len(ls) - 1)

RECURSIVE edit_starting_hash(_)
edit_starting_hash(ls) ==
    IF ls = << >> THEN << >>
    ELSE (IF StartsWith(Head(ls), <<"#">>) /\ StrLen(Head(ls)) > 1
          THEN <<Tail(Head(ls))>>
          ELSE <<Head(ls)>>) \o edit_starting_hash(Tail(ls))

RECURSIVE edit_char_half(_)
edit_char_half(ls) ==
    IF ls = << >> THEN << >>
    ELSE <<Replace(Head(ls), <<Half>>, <<"1", "/", "2">>)>> \o edit_char_half(Tail(ls))

edit_empty(ls) == NonEmpty(ls)

\* the segments of a line with '\n'
RECURSIVE TrimSegments(_)
TrimSegments(v) ==
    IF v = << >> THEN << >>
    ELSE <<TrimEndMatches(Trim(Head(v)), ",")>> \o TrimSegments(Tail(v))

NewlineSegments(lne) == TrimSegments(NonEmpty(SplitTerminator(lne, "\n")))

RECURSIVE edit_newline_from(_, _)
edit_newline_from(ls, i) ==
    IF i < 0 THEN ls
    ELSE IF Contains(At(ls, i), <<"\n">>)
    THEN edit_newline_from(Splice(ls, i, NewlineSegments(At(ls, i))), i - 1)
    ELSE edit_newline_from(ls, i - 1)

edit_newline(ls) == edit_newline_from(ls, Len(ls) - 1)

(***************************************************************************)
(* edit_hob                                                                *)
(***************************************************************************)
L_45_INDEPENDENCE_AVE == <<"4", "5", " ", "I", "N", "D", "E", "P", "E", "N", "D", "E", "N", "C", "E", " ", "A", "V", "E">>
L_15_INDEPENDENCE_AVE == <<"1", "5", " ", "I", "N", "D", "E", "P", "E", "N", "D", "E", "N", "C", "E", " ", "A", "V", "E">>
L_27_INDEPENDENCE_AVE == <<"2", "7", " ", "I", "N", "D", "E", "P", "E", "N", "D", "E", "N", "C", "E", " ", "A", "V", "E">>
L_CANNON == <<"C", "A", "N", "N", "O", "N">>
L_LONGWORTH == <<"L", "O", "N", "G", "W", "O", "R", "T", "H">>
L_RAYBURN == <<"R", "A", "Y", "B", "U", "R", "N">>
L_HOUSE == <<"H", "O", "U", "S", "E">>
L_OFFICE_BUILDING == <<"O", "F", "F", "I", "C", "E", " ", "B", "U", "I", "L", "D", "I", "N", "G">>
L_sp_OFFICE_BUILDING == <<" ", "O", "F", "F", "I", "C", "E", " ", "B", "U", "I", "L", "D", "I", "N", "G">>
L_HOUSE_OFFICE == <<"H", "O", "U", "S", "E", " ", "O", "F", "F", "I", "C", "E">>
L_BUILDING == <<"B", "U", "I", "L", "D", "I", "N", "G">>
L_HOB == <<"H", "O", "B">>
L_ROOM == <<"R", "O", "O", "M">>

\* an outcome of an operation on lines: st is "ok" or "panic"
Ok(ls) == [st |-> "ok", lnes |-> ls]
Panicked == [st |-> "panic", lnes |-> << >>]

\* String::truncate(idx_fnd) and push_str("HOB") where pat is found
TruncateHob(lne, pat) ==
    IF Contains(lne, pat) THEN SubSeq(lne, 1, Find(lne, pat)) \o L_HOB ELSE lne

\* "RAYBURN HOUSE OFFICE BUILDING, 2419": what follows the first comma,
\* trimmed, a space, what precedes it
CommaSwap(lne) ==
    IF Contains(lne, <<",">>)
    THEN Trim(SubSeq(lne, Find(lne, <<",">>) + 2, Len(lne))) \o <<" ">>
            \o SubSeq(lne, 1, Find(lne, <<",">>))
    ELSE lne

IsHobLine(lne) ==
    Contains(lne, L_CANNON) \/ Contains(lne, L_LONGWORTH) \/ Contains(lne, L_RAYBURN)

\* the body of the loop of edit_hob at index i
edit_hob_body(ls0, i) ==
    LET ls1 == IF \/ StartsWith(At(ls0, i), L_45_INDEPENDENCE_AVE)
                  \/ StartsWith(At(ls0, i), L_15_INDEPENDENCE_AVE)
                  \/ StartsWith(At(ls0, i), L_27_INDEPENDENCE_AVE)
               THEN Remove(ls0, i)
               ELSE ls0
    IN  IF i >= Len(ls1) THEN Panicked                      \* lnes[idx]
        ELSE IF ~IsHobLine(At(ls1, i)) THEN Ok(ls1)            \* continue
        ELSE
          LET ls2 == Set(ls1, i, CommaSwap(At(ls1, i)))
              ls3 == IF /\ i + 1 # Len(ls2)
                        /\ EndsWith(At(ls2, i), L_HOUSE)
                        /\ At(ls2, i + 1) = L_OFFICE_BUILDING
                     THEN Remove(Set(ls2, i, At(ls2, i) \o L_sp_OFFICE_BUILDING), i + 1)
                     ELSE ls2
              l4 == TruncateHob(At(ls3, i), L_HOUSE_OFFICE)
              l5 == TruncateHob(l4, L_OFFICE_BUILDING)
              l6 == TruncateHob(l5, L_BUILDING)
              ls6 == Set(ls3, i, l6)
          IN  IF /\ i + 1 # Len(ls6)
                 /\ Contains(At(ls6, i + 1), L_ROOM)
                 /\ EndsWith(Trim(l6), L_HOB)
              THEN LET room == SplitWhitespace(At(ls6, i + 1))
                   IN  IF Len(room) < 2 THEN Panicked       \* room[1]
                       ELSE Ok(Remove(Set(ls6, i, room[2] \o <<" ">> \o l6), i + 1))
              ELSE Ok(ls6)

RECURSIVE edit_hob_from(_, _)
edit_hob_from(ls, i) ==
    IF i < 0 THEN Ok(ls)
    ELSE LET r == edit_hob_body(ls, i)
         IN  IF r.st = "panic" THEN r ELSE edit_hob_from(r.lnes, i - 1)

edit_hob(ls) == edit_hob_from(ls, Len(ls) - 1)

(***************************************************************************)
(* re_state and the city, state, zip editors of Prsr                       *)
(***************************************************************************)
\* the alternatives of re_state in the order of the pattern; an alternative
\* is its words, which \s+ separates
StateAlts == <<
    <<<<"A", "L">>>>,
    <<<<"A", "L", "A", "B", "A", "M", "A">>>>,
    <<<<"A", "K">>>>,
    <<<<"A", "L", "A", "S", "K", "A">>>>,
    <<<<"A", "S">>>>,
    <<<<"A", "M", "E", "R", "I", "C", "A", "N">>, <<"S", "A", "M", "O", "A">>>>,
    <<<<"A", "Z">>>>,
    <<<<"A", "R", "I", "Z", "O", "N", "A">>>>,
    <<<<"A", "R">>>>,
    <<<<"A", "R", "K", "A", "N", "S", "A", "S">>>>,
    <<<<"C", "A">>>>,
    <<<<"C", "A", "L", "I", "F", "O", "R", "N", "I", "A">>>>,
    <<<<"C", "O">>>>,
    <<<<"C", "O", "L", "O", "R", "A", "D", "O">>>>,
    <<<<"C", "T">>>>,
    <<<<"C", "O", "N", "N", "E", "C", "T", "I", "C", "U", "T">>>>,
    <<<<"D", "E">>>>,
    <<<<"D", "E", "L", "A", "W", "A", "R", "E">>>>,
    <<<<"D", "C">>>>,
    <<<<"D", "I", "S", "T", "R", "I", "C", "T">>, <<"O", "F">>, <<"C", "O", "L", "U", "M", "B", "I", "A">>>>,
    <<<<"F", "M">>>>,
    <<<<"F", "E", "D", "E", "R", "A", "T", "E", "D">>, <<"S", "T", "A", "T", "E", "S">>, <<"O", "F">>, <<"M", "I", "C", "R", "O", "N", "E", "S", "I", "A">>>>,
    <<<<"F", "L">>>>,
    <<<<"F", "L", "O", "R", "I", "D", "A">>>>,
    <<<<"G", "A">>>>,
    <<<<"G", "E", "O", "R", "G", "I", "A">>>>,
    <<<<"G", "U">>>>,
    <<<<"G", "U", "A", "M">>>>,
    <<<<"H", "I">>>>,
    <<<<"H", "A", "W", "A", "I", "I">>>>,
    <<<<"I", "D">>>>,
    <<<<"I", "D", "A", "H", "O">>>>,
    <<<<"I", "L">>>>,
    <<<<"I", "L", "L", "I", "N", "O", "I", "S">>>>,
    <<<<"I", "N">>>>,
    <<<<"I", "N", "D", "I", "A", "N", "A">>>>,
    <<<<"I", "A">>>>,
    <<<<"I", "O", "W", "A">>>>,
    <<<<"K", "S">>>>,
    <<<<"K", "A", "N", "S", "A", "S">>>>,
    <<<<"K", "Y">>>>,
    <<<<"K", "E", "N", "T", "U", "C", "K", "Y">>>>,
    <<<<"L", "A">>>>,
    <<<<"L", "O", "U", "I", "S", "I", "A", "N", "A">>>>,
    <<<<"M", "E">>>>,
    <<<<"M", "A", "I", "N", "E">>>>,
    <<<<"M", "H">>>>,
    <<<<"M", "A", "R", "S", "H", "A", "L", "L">>, <<"I", "S", "L", "A", "N", "D", "S">>>>,
    <<<<"M", "D">>>>,
    <<<<"M", "A", "R", "Y", "L", "A", "N", "D">>>>,
    <<<<"M", "A">>>>,
    <<<<"M", "A", "S", "S", "A", "C", "H", "U", "S", "E", "T", "T", "S">>>>,
    <<<<"M", "I">>>>,
    <<<<"M", "I", "C", "H", "I", "G", "A", "N">>>>,
    <<<<"M", "N">>>>,
    <<<<"M", "I", "N", "N", "E", "S", "O", "T", "A">>>>,
    <<<<"M", "S">>>>,
    <<<<"M", "I", "S", "S", "I", "S", "S", "I", "P", "P", "I">>>>,
    <<<<"M", "O">>>>,
    <<<<"M", "I", "S", "S", "O", "U", "R", "I">>>>,
    <<<<"M", "T">>>>,
    <<<<"M", "O", "N", "T", "A", "N", "A">>>>,
    <<<<"N", "E">>>>,
    <<<<"N", "E", "B", "R", "A", "S", "K", "A">>>>,
    <<<<"N", "V">>>>,
    <<<<"N", "E", "V", "A", "D", "A">>>>,
    <<<<"N", "H">>>>,
    <<<<"N", "E", "W">>, <<"H", "A", "M", "P", "S", "H", "I", "R", "E">>>>,
    <<<<"N", "J">>>>,
    <<<<"N", "E", "W">>, <<"J", "E", "R", "S", "E", "Y">>>>,
    <<<<"N", "M">>>>,
    <<<<"N", "E", "W">>, <<"M", "E", "X", "I", "C", "O">>>>,
    <<<<"N", "Y">>>>,
    <<<<"N", "E", "W">>, <<"Y", "O", "R", "K">>>>,
    <<<<"N", "C">>>>,
    <<<<"N", "O", "R", "T", "H">>, <<"C", "A", "R", "O", "L", "I", "N", "A">>>>,
    <<<<"N", "D">>>>,
    <<<<"N", "O", "R", "T", "H">>, <<"D", "A", "K", "O", "T", "A">>>>,
    <<<<"M", "P">>>>,
    <<<<"N", "O", "R", "T", "H", "E", "R", "N">>, <<"M", "A", "R", "I", "A", "N", "A">>, <<"I", "S", "L", "A", "N", "D", "S">>>>,
    <<<<"O", "H">>>>,
    <<<<"O", "H", "I", "O">>>>,
    <<<<"O", "K">>>>,
    <<<<"O", "K", "L", "A", "H", "O", "M", "A">>>>,
    <<<<"O", "R">>>>,
    <<<<"O", "R", "E", "G", "O", "N">>>>,
    <<<<"P", "W">>>>,
    <<<<"P", "A", "L", "A", "U">>>>,
    <<<<"P", "A">>>>,
    <<<<"P", "E", "N", "N", "S", "Y", "L", "V", "A", "N", "I", "A">>>>,
    <<<<"P", "R">>>>,
    <<<<"P", "U", "E", "R", "T", "O">>, <<"R", "I", "C", "O">>>>,
    <<<<"R", "I">>>>,
    <<<<"R", "H", "O", "D", "E">>, <<"I", "S", "L", "A", "N", "D">>>>,
    <<<<"S", "C">>>>,
    <<<<"S", "O", "U", "T", "H">>, <<"C", "A", "R", "O", "L", "I", "N", "A">>>>,
    <<<<"S", "D">>>>,
    <<<<"S", "O", "U", "T", "H">>, <<"D", "A", "K", "O", "T", "A">>>>,
    <<<<"T", "N">>>>,
    <<<<"T", "E", "N", "N", "E", "S", "S", "E", "E">>>>,
    <<<<"T", "X">>>>,
    <<<<"T", "E", "X", "A", "S">>>>,
    <<<<"U", "T">>>>,
    <<<<"U", "T", "A", "H">>>>,
    <<<<"V", "T">>>>,
    <<<<"V", "E", "R", "M", "O", "N", "T">>>>,
    <<<<"V", "I">>>>,
    <<<<"V", "I", "R", "G", "I", "N">>, <<"I", "S", "L", "A", "N", "D", "S">>>>,
    <<<<"V", "A">>>>,
    <<<<"V", "I", "R", "G", "I", "N", "I", "A">>>>,
    <<<<"W", "A">>>>,
    <<<<"W", "A", "S", "H", "I", "N", "G", "T", "O", "N">>>>,
    <<<<"W", "V">>>>,
    <<<<"W", "E", "S", "T">>, <<"V", "I", "R", "G", "I", "N", "I", "A">>>>,
    <<<<"W", "I">>>>,
    <<<<"W", "I", "S", "C", "O", "N", "S", "I", "N">>>>,
    <<<<"W", "Y">>>>,
    <<<<"W", "Y", "O", "M", "I", "N", "G">>>>,
    <<<<"A", "A">>>>,
    <<<<"A", "R", "M", "E", "D">>, <<"F", "O", "R", "C", "E", "S">>, <<"A", "M", "E", "R", "I", "C", "A", "S">>>>,
    <<<<"A", "E">>>>,
    <<<<"A", "R", "M", "E", "D">>, <<"F", "O", "R", "C", "E", "S">>, <<"E", "U", "R", "O", "P", "E">>>>,
    <<<<"A", "P">>>>,
    <<<<"A", "R", "M", "E", "D">>, <<"F", "O", "R", "C", "E", "S">>, <<"P", "A", "C", "I", "F", "I", "C">>>> >>

\* \w of the regex
WordChars == Letters \cup Digits \cup {"_"}

\* \b at position p of s (p characters precede it)
WordBoundary(s, p) ==
    (p >= 1 /\ s[p] \in WordChars) # (p < Len(s) /\ s[p + 1] \in WordChars)

\* the positions reached by the words ws, separated by \s+, from positions P
RECURSIVE MatchWords(_, _, _)
MatchWords(s, P, ws) ==
    IF Len(ws) = 1 THEN Lit(s, P, ws[1])
    ELSE MatchWords(s, Plus(s, Lit(s, P, ws[1]), Whitespace), Tail(ws))

\* the ends of the matches of the alternative alt that start at p, \b on
\* both sides
AltEnds(s, p, alt) ==
    IF WordBoundary(s, p)
    THEN {e \in MatchWords(s, {p}, alt) : WordBoundary(s, e)}
    ELSE {}

\* the largest number of the set S
MaxOf(S) == CHOOSE e \in S : \A f \in S : f <= e

\* the match at p of the first of the alternatives ks: its end
FirstAltEnd(alts, s, p, ks) ==
    MaxOf(AltEnds(s, p, alts[CHOOSE a \in ks : \A b \in ks : a <= b]))

\* the match of the alternation alts that starts at p: the first alternative
\* that matches wins (leftmost-first); its end, -1 when none matches
AlternationEndAt(alts, s, p) ==
    IF \E k \in 1..Len(alts) : AltEnds(s, p, alts[k]) # {}
    THEN FirstAltEnd(alts, s, p, {k \in 1..Len(alts) : AltEnds(s, p, alts[k]) # {}})
    ELSE -1

\* the first match at or after a position of qs, and the matches after it
RECURSIVE MatchesFrom(_, _, _)
FirstMatchAt(alts, s, q) ==
    <<[start |-> q, end |-> AlternationEndAt(alts, s, q)]>>
        \o MatchesFrom(alts, s, AlternationEndAt(alts, s, q))

\* find_iter from position p: the matches [start, end), in order
MatchesFrom(alts, s, p) ==
    IF \E q \in p..Len(s) : AlternationEndAt(alts, s, q) # -1
    THEN FirstMatchAt(alts, s, CHOOSE a \in p..Len(s) :
                                  /\ AlternationEndAt(alts, s, a) # -1
                                  /\ \A b \in p..(a - 1) : AlternationEndAt(alts, s, b) = -1)
    ELSE << >>

\* re_state.find_iter
re_state_find_iter(s) == MatchesFrom(StateAlts, s, 0)

\* re_state.is_match
re_state_is_match(s) == re_state_find_iter(s) # << >>

\* Prsr::edit_concat_zip
RECURSIVE edit_concat_zip_from(_, _)
edit_concat_zip_from(ls, i) ==
    IF i < 1 THEN ls
    ELSE IF is_zip(At(ls, i)) /\ ~re_state_is_match(At(ls, i - 1))
    THEN edit_concat_zip_from(
            Remove(Set(ls, i - 1, At(ls, i - 1) \o <<" ">> \o At(ls, i)), i), i - 1)
    ELSE edit_concat_zip_from(ls, i - 1)

edit_concat_zip(ls) == edit_concat_zip_from(ls, Len(ls) - 1)

\* the last n characters of lne
LastChars(lne, n) == SubSeq(lne, Len(lne) - n + 1, Len(lne))

\* ends_with_zip5: the zip, or None
ends_with_zip5(lne) ==
    IF /\ StrLen(lne) > LEN_ZIP5
       /\ Len(lne) > LEN_ZIP5
       /\ is_zip5(LastChars(lne, LEN_ZIP5))
       /\ lne[Len(lne) - LEN_ZIP5] \notin Digits
       /\ lne[Len(lne) - LEN_ZIP5] # ZIP_DASH
    THEN LastChars(lne, LEN_ZIP5)
    ELSE None

\* ends_with_zip10: the zip, or None
ends_with_zip10(lne) ==
    IF /\ StrLen(lne) > LEN_ZIP10
       /\ Len(lne) >= LEN_ZIP10
       /\ is_zip10(LastChars(lne, LEN_ZIP10))
    THEN LastChars(lne, LEN_ZIP10)
    ELSE None

ends_with_zip_zip5_only(lne) == ends_with_zip5(lne)

\* ends_with_zip
ends_with_zip(lne) ==
    IF ends_with_zip5(lne) # None THEN ends_with_zip5(lne) ELSE ends_with_zip10(lne)

\* the grave accent, named by its code point
Grave == "U+0060"

\* char::is_ascii_punctuation
AsciiPunctuation ==
    {"!", "\"", "#", "$", "%", "&", "'", "(", ")", "*", "+", ",", "-", ".", "/",
     ":", ";", "<", "=", ">", "?", "@", "[", "\\", "]", "^", "_", Grave, "{", "|",
     "}", "~"}

\* trim_end_spc_pnc
RECURSIVE trim_end_spc_pnc(_)
trim_end_spc_pnc(lne) ==
    IF lne # << >> /\ lne[Len(lne)] \in Whitespace \cup AsciiPunctuation
    THEN trim_end_spc_pnc(SubSeq(lne, 1, Len(lne) - 1))
    ELSE lne

\* the lines inserted for what precedes the state
CommaParts(lne) ==
    IF Contains(lne, <<",">>) THEN TrimAll(SplitTerminator(lne, ",")) ELSE <<lne>>

\* the lines that replace a line that ends with zip, from the line without
\* the zip and the matches of re_state in it: the parts, the state if one
\* is found, the zip
SplitAtState(lne, mats, zip) ==
    IF mats # << >>
    THEN CommaParts(trim_end_spc_pnc(SubSeq(lne, 1, mats[Len(mats)].start)))
            \o <<SubSeq(lne, mats[Len(mats)].start + 1, mats[Len(mats)].end)>>
            \o <<zip>>
    ELSE CommaParts(lne) \o <<zip>>

SplitCityStateZip(lne, zip) ==
    SplitAtState(SubSeq(lne, 1, Len(lne) - Len(zip)),
                 re_state_find_iter(SubSeq(lne, 1, Len(lne) - Len(zip))), zip)

\* Prsr::edit_split_city_state_zip
RECURSIVE edit_split_city_state_zip_from(_, _)
edit_split_city_state_zip_from(ls, i) ==
    IF i < 0 THEN ls
    ELSE IF ends_with_zip(At(ls, i)) # None
    THEN edit_split_city_state_zip_from(
            Splice(ls, i, SplitCityStateZip(At(ls, i), ends_with_zip(At(ls, i)))), i - 1)
    ELSE edit_split_city_state_zip_from(ls, i - 1)

edit_split_city_state_zip(ls) == edit_split_city_state_zip_from(ls, Len(ls) - 1)

\* Prsr::edit_lnes
edit_lnes(ls) ==
    edit_single_comma(
      edit_drain_after_last_zip(
        edit_split_city_state_zip(
          edit_zip_disjoint(
            edit_concat_zip(
              edit_split_bar(ls))))))

(***************************************************************************)
(* Override rules: edit_person_lnes (src/prsr.rs), edit_person_house_lnes  *)
(* (src/house.rs), edit_person_senate_lnes (src/senate.rs).  Each match    *)
(* arm is a loop `for idx in (0..lnes.len()).rev()` over an if / else-if   *)
(* chain; an arm is written as the branches of its chain, a branch as its  *)
(* condition on lnes[idx], its statements in order, and whether it ends    *)
(* with `break`.                                                           *)
(***************************************************************************)
\* (per.name_fst, per.name_lst)
Per(f, l) == [name_fst |-> f, name_lst |-> l]

\* the condition c of a branch on lnes[i]
Holds(c, ls, i) ==
    /\ \E l \in c.lits :
          CASE c.kind = "eq" -> At(ls, i) = l
            [] c.kind = "contains" -> Contains(At(ls, i), l)
            [] c.kind = "starts_with" -> StartsWith(At(ls, i), l)
            [] c.kind = "ends_with" -> EndsWith(At(ls, i), l)
    /\ c.notfirst => i # 0

\* one statement of a branch at index i; an index out of range panics
Statement(ls, i, a) ==
    CASE a.a = "set" ->                        \* lnes[idx] = s
            IF i < Len(ls) THEN Ok(Set(ls, i, a.s)) ELSE Panicked
      [] a.a = "replace" ->                    \* lnes[idx] = lnes[idx].replace(pat, rep)
            IF i < Len(ls) THEN Ok(Set(ls, i, Replace(At(ls, i), a.pat, a.rep)))
            ELSE Panicked
      [] a.a = "push_str" ->                   \* lnes[idx].push_str(s)
            IF i < Len(ls) THEN Ok(Set(ls, i, At(ls, i) \o a.s)) ELSE Panicked
      [] a.a = "skip" ->                       \* lnes[idx] = lnes[idx][off..]
            IF i < Len(ls) /\ a.off <= Len(At(ls, i))
            THEN Ok(Set(ls, i, SubSeq(At(ls, i), a.off + 1, Len(At(ls, i)))))
            ELSE Panicked
      [] a.a = "remove" ->                     \* lnes.remove(idx + off)
            IF i + a.off < Len(ls) THEN Ok(Remove(ls, i + a.off)) ELSE Panicked
      [] a.a = "insert" ->                     \* lnes.insert(idx + off, s)
            IF i + a.off >= 0 /\ i + a.off <= Len(ls)
            THEN Ok(Insert(ls, i + a.off, a.s))
            ELSE Panicked
      [] a.a = "take_next" ->                  \* lnes[idx] = s + lnes.remove(idx + 1)
            IF i + a.off < Len(ls)
            THEN Ok(Set(Remove(ls, i + a.off), i, a.s \o At(ls, i + a.off)))
            ELSE Panicked
      [] a.a = "remove_push_digits" ->
            \* digits = first word of lnes[idx]; lnes.remove(idx);
            \* lnes[idx].push_str(s); lnes[idx].push_str(digits)
            IF SplitWhitespace(At(ls, i)) # << >> /\ i < Len(Remove(ls, i))
            THEN Ok(Set(Remove(ls, i), i,
                        At(Remove(ls, i), i) \o a.s \o SplitWhitespace(At(ls, i))[1]))
            ELSE Panicked

\* the statements of a branch, in order
RECURSIVE Statements(_, _, _)
Statements(ls, i, acts) ==
    IF acts = << >> THEN Ok(ls)
    ELSE LET r == Statement(ls, i, Head(acts))
         IN  IF r.st = "panic" THEN r ELSE Statements(r.lnes, i, Tail(acts))

\* the loop of a match arm from index i down
RECURSIVE PersonLoop(_, _, _)
PersonLoop(arm, ls, i) ==
    IF i < 0 THEN Ok(ls)
    ELSE IF \E k \in 1..Len(arm) : Holds(arm[k].cond, ls, i)
    THEN LET k == CHOOSE a \in 1..Len(arm) :
                     /\ Holds(arm[a].cond, ls, i)
                     /\ \A b \in 1..(a - 1) : ~Holds(arm[b].cond, ls, i)
             r == Statements(ls, i, arm[k].acts)
         IN  IF r.st = "panic" \/ arm[k].brk THEN r
             ELSE PersonLoop(arm, r.lnes, i - 1)
    ELSE PersonLoop(arm, ls, i - 1)

\* the match arms of edit_person_lnes (src/prsr.rs)
edit_person_lnes_arms(per) ==
    CASE per = Per("Matthew", "Rosendale") ->
        <<[cond |-> [kind |-> "eq", lits |-> {<<"3", "3", "0", "0", " ", "2", "N", "D", " ", "A", "V", "E", "N", "U", "E", " ", "N", " ", "S", "U", "I", "T", "E", "S", " ", "7", "-", "8">>}, notfirst |-> FALSE],
            acts |-> <<[a |-> "set", off |-> 0, s |-> <<"3", "3", "0", "0", " ", "2", "N", "D", " ", "A", "V", "E", "N", "U", "E", " ", "N", " ", "S", "U", "I", "T", "E", " ", "7">>, pat |-> <<>>, rep |-> <<>>]>>,
            brk |-> FALSE]>>
      [] per = Per("Terri", "Sewell") ->
        <<[cond |-> [kind |-> "eq", lits |-> {<<"1", "0", "1", " ", "S", "O", "U", "T", "H", " ", "L", "A", "W", "R", "E", "N", "C", "E", " ", "S", "T", " ", "C", "O", "U", "R", "T", "H", "O", "U", "S", "E", " ", "A", "N", "N", "E", "X", " ", "3">>}, notfirst |-> FALSE],
            acts |-> <<[a |-> "set", off |-> 0, s |-> <<"1", "0", "1", " ", "S", "O", "U", "T", "H", " ", "L", "A", "W", "R", "E", "N", "C", "E", " ", "S", "T">>, pat |-> <<>>, rep |-> <<>>]>>,
            brk |-> FALSE]>>
      [] per = Per("Joe", "Wilson") ->
        <<[cond |-> [kind |-> "eq", lits |-> {<<"1", "7", "0", "0", " ", "S", "U", "N", "S", "E", "T", " ", "B", "L", "V", "D", " ", "(", "U", "S", " ", "3", "7", "8", ")", ",", " ", "S", "U", "I", "T", "E", " ", "1">>}, notfirst |-> FALSE],
            acts |-> <<[a |-> "set", off |-> 0, s |-> <<"1", "7", "0", "0", " ", "S", "U", "N", "S", "E", "T", " ", "B", "L", "V", "D", " ", "S", "T", "E", " ", "1">>, pat |-> <<>>, rep |-> <<>>]>>,
            brk |-> FALSE]>>
      [] per = Per("Robert", "Wittman") ->
        <<[cond |-> [kind |-> "eq", lits |-> {<<"5", "0", "8", " ", "C", "H", "U", "R", "C", "H", " ", "L", "A", "N", "E">>, <<"3", "0", "7", " ", "M", "A", "I", "N", " ", "S", "T", "R", "E", "E", "T">>}, notfirst |-> FALSE],
            acts |-> <<[a |-> "remove", off |-> 0, s |-> <<>>, pat |-> <<>>, rep |-> <<>>]>>,
            brk |-> FALSE]>>
      [] per = Per("Andy", "Biggs") ->
        <<[cond |-> [kind |-> "eq", lits |-> {<<"S", "U", "P", "E", "R", "S", "T", "I", "T", "I", "O", "N", " ", "P", "L", "A", "Z", "A">>}, notfirst |-> FALSE],
            acts |-> <<[a |-> "remove", off |-> 0, s |-> <<>>, pat |-> <<>>, rep |-> <<>>]>>,
            brk |-> FALSE]>>
      [] per = Per("John", "Carter") ->
        <<[cond |-> [kind |-> "eq", lits |-> {<<"S", "U", "I", "T", "E", " ", "#", " ", "I", "-", "1", "0">>}, notfirst |-> FALSE],
            acts |-> <<[a |-> "remove", off |-> 0, s |-> <<>>, pat |-> <<>>, rep |-> <<>>]>>,
            brk |-> FALSE]>>
      [] per = Per("Michael", "Cloud") ->
        <<[cond |-> [kind |-> "eq", lits |-> {<<"T", "O", "W", "E", "R", " ", "I", "I">>}, notfirst |-> FALSE],
            acts |-> <<[a |-> "remove", off |-> 0, s |-> <<>>, pat |-> <<>>, rep |-> <<>>]>>,
            brk |-> FALSE]>>
      [] per = Per("Tony", "Gonzales") ->
        <<[cond |-> [kind |-> "contains", lits |-> {<<"(", "B", "Y", " ", "A", "P", "P", "T", " ", "O", "N", "L", "Y", ")">>}, notfirst |-> FALSE],
            acts |-> <<[a |-> "replace", off |-> 0, s |-> <<>>, pat |-> <<" ", "(", "B", "Y", " ", "A", "P", "P", "T", " ", "O", "N", "L", "Y", ")">>, rep |-> <<>>]>>,
            brk |-> FALSE]>>
      [] per = Per("Garret", "Graves") ->
        <<[cond |-> [kind |-> "contains", lits |-> {<<"6", "1", "5", " ", "E", " ", "W", "O", "R", "T", "H", "Y", " ", "S", "T", "R", "E", "E", "T", " ", "G", "O", "N", "Z", "A", "L", "E", "S">>}, notfirst |-> FALSE],
            acts |-> <<[a |-> "set", off |-> 0, s |-> <<"G", "O", "N", "Z", "A", "L", "E", "S">>, pat |-> <<>>, rep |-> <<>>],
                      [a |-> "insert", off |-> 0, s |-> <<"6", "1", "5", " ", "E", " ", "W", "O", "R", "T", "H", "Y", " ", "S", "T">>, pat |-> <<>>, rep |-> <<>>]>>,
            brk |-> FALSE]>>
      [] per = Per("Jared", "Huffman") ->
        <<[cond |-> [kind |-> "eq", lits |-> {<<"4", "3", "0", " ", "N", "O", "R", "T", "H", " ", "F", "R", "A", "N", "K", "L", "I", "N", " ", "S", "T", " ", "F", "O", "R", "T", " ", "B", "R", "A", "G", "G", ",", " ", "C", "A", " ", "9", "5", "4", "3", "7">>}, notfirst |-> FALSE],
            acts |-> <<[a |-> "set", off |-> 0, s |-> <<"F", "O", "R", "T", " ", "B", "R", "A", "G", "G", ",", " ", "C", "A", " ", "9", "5", "4", "3", "7">>, pat |-> <<>>, rep |-> <<>>],
                      [a |-> "insert", off |-> 0, s |-> <<"4", "3", "0", " ", "N", "O", "R", "T", "H", " ", "F", "R", "A", "N", "K", "L", "I", "N", " ", "S", "T">>, pat |-> <<>>, rep |-> <<>>]>>,
            brk |-> FALSE],
          [cond |-> [kind |-> "contains", lits |-> {<<"F", "O", "R", "T", " ", "B", "R", "A", "G", "G", " ", "9", "5", "4", "3", "7">>}, notfirst |-> FALSE],
            acts |-> <<[a |-> "set", off |-> 0, s |-> <<"F", "O", "R", "T", " ", "B", "R", "A", "G", "G", ",", " ", "C", "A", " ", "9", "5", "4", "3", "7">>, pat |-> <<>>, rep |-> <<>>]>>,
            brk |-> FALSE]>>
      [] per = Per("Bill", "Huizenga") ->
        <<[cond |-> [kind |-> "contains", lits |-> {<<"1", "0", "8", " ", "P", "O", "R", "T", "A", "G", "E", ",", " ", "M", "I", " ", "4", "9", "0", "0", "2">>}, notfirst |-> FALSE],
            acts |-> <<[a |-> "replace", off |-> 0, s |-> <<>>, pat |-> <<"1", "0", "8", " ", "P", "O", "R", "T", "A", "G", "E", ",", " ", "M", "I", " ", "4", "9", "0", "0", "2">>, rep |-> <<"1", "0", "8", "\n", "P", "O", "R", "T", "A", "G", "E", ",", " ", "M", "I", " ", "4", "9", "0", "0", "2">>]>>,
            brk |-> FALSE]>>
      [] per = Per("Mike", "Johnson") ->
        <<[cond |-> [kind |-> "eq", lits |-> {<<"4", "4", "4", " ", "C", "A", "S", "P", "A", "R", "I", " ", "D", "R", "I", "V", "E">>, <<"S", "O", "U", "T", "H", " ", "H", "A", "L", "L", " ", "R", "O", "O", "M", " ", "2", "2", "4">>}, notfirst |-> FALSE],
            acts |-> <<[a |-> "remove", off |-> 0, s |-> <<>>, pat |-> <<>>, rep |-> <<>>]>>,
            brk |-> FALSE],
          [cond |-> [kind |-> "eq", lits |-> {<<"P", "O", " ", "B", "O", "X", " ", "4", "9", "8", "9", " ", "(", "M", "A", "I", "L", "I", "N", "G", ")">>}, notfirst |-> FALSE],
            acts |-> <<[a |-> "set", off |-> 0, s |-> <<"P", "O", " ", "B", "O", "X", " ", "4", "9", "8", "9">>, pat |-> <<>>, rep |-> <<>>]>>,
            brk |-> FALSE]>>
      [] per = Per("Michael", "Lawler") ->
        <<[cond |-> [kind |-> "eq", lits |-> {<<"P", "O", " ", "B", "O", "X", " ", "1", "6", "4", "5">>}, notfirst |-> FALSE],
            acts |-> <<[a |-> "remove", off |-> 0, s |-> <<>>, pat |-> <<>>, rep |-> <<>>]>>,
            brk |-> FALSE]>>
      [] per = Per("Anna Paulina", "Luna") ->
        <<[cond |-> [kind |-> "contains", lits |-> {<<"O", "F", "F", "I", "C", "E", " ", "S", "U", "I", "T", "E", ":">>}, notfirst |-> FALSE],
            acts |-> <<[a |-> "replace", off |-> 0, s |-> <<>>, pat |-> <<"O", "F", "F", "I", "C", "E", " ", "S", "U", "I", "T", "E", ":">>, rep |-> <<"S", "T", "E">>]>>,
            brk |-> FALSE]>>
      [] per = Per("Daniel", "Meuser") ->
        <<[cond |-> [kind |-> "eq", lits |-> {<<"S", "U", "I", "T", "E", " ", "1", "1", "0", ",", " ", "L", "O", "S", "C", "H", " ", "P", "L", "A", "Z", "A">>}, notfirst |-> FALSE],
            acts |-> <<[a |-> "set", off |-> 0, s |-> <<"S", "U", "I", "T", "E", " ", "1", "1", "0">>, pat |-> <<>>, rep |-> <<>>]>>,
            brk |-> FALSE]>>
      [] per = Per("Max", "Miller") ->
        <<[cond |-> [kind |-> "eq", lits |-> {<<"W", "A", "S", "H", "I", "N", "G", "T", "O", "N">>}, notfirst |-> TRUE],
            acts |-> <<[a |-> "insert", off |-> -1, s |-> <<"1", "4", "3", " ", "C", "A", "N", "N", "O", "N", " ", "H", "O", "B">>, pat |-> <<>>, rep |-> <<>>]>>,
            brk |-> TRUE]>>
      [] per = Per("Frank", "Pallone") ->
        <<[cond |-> [kind |-> "eq", lits |-> {<<"6", "7", "/", "6", "9", " ", "C", "H", "U", "R", "C", "H", " ", "S", "T">>}, notfirst |-> FALSE],
            acts |-> <<[a |-> "set", off |-> 0, s |-> <<"6", "7", " ", "C", "H", "U", "R", "C", "H", " ", "S", "T">>, pat |-> <<>>, rep |-> <<>>]>>,
            brk |-> FALSE]>>
      [] per = Per("Stacey", "Plaskett") ->
        <<[cond |-> [kind |-> "eq", lits |-> {<<"F", "R", "E", "D", "E", "R", "I", "K", "S", "T", "E", "D", ",", " ", "V", "I", " ", "0", "0", "8", "4", "0">>}, notfirst |-> FALSE],
            acts |-> <<[a |-> "set", off |-> 0, s |-> <<"S", "T", " ", "C", "R", "O", "I", "X", ",", " ", "V", "I", " ", "0", "0", "8", "4", "0">>, pat |-> <<>>, rep |-> <<>>]>>,
            brk |-> FALSE]>>
      [] OTHER -> << >>

\* the match arms of edit_person_house_lnes (src/house.rs)
edit_person_house_lnes_arms(per) ==
    CASE per = Per("Matthew", "Rosendale") ->
        <<[cond |-> [kind |-> "eq", lits |-> {<<"3", "3", "0", "0", " ", "2", "N", "D", " ", "A", "V", "E", "N", "U", "E", " ", "N", " ", "S", "U", "I", "T", "E", "S", " ", "7", "-", "8">>}, notfirst |-> FALSE],
            acts |-> <<[a |-> "set", off |-> 0, s |-> <<"3", "3", "0", "0", " ", "2", "N", "D", " ", "A", "V", "E", "N", "U", "E", " ", "N", " ", "S", "U", "I", "T", "E", " ", "7">>, pat |-> <<>>, rep |-> <<>>]>>,
            brk |-> FALSE]>>
      [] per = Per("Terri", "Sewell") ->
        <<[cond |-> [kind |-> "eq", lits |-> {<<"1", "0", "1", " ", "S", "O", "U", "T", "H", " ", "L", "A", "W", "R", "E", "N", "C", "E", " ", "S", "T", " ", "C", "O", "U", "R", "T", "H", "O", "U", "S", "E", " ", "A", "N", "N", "E", "X", " ", "3">>}, notfirst |-> FALSE],
            acts |-> <<[a |-> "set", off |-> 0, s |-> <<"1", "0", "1", " ", "S", "O", "U", "T", "H", " ", "L", "A", "W", "R", "E", "N", "C", "E", " ", "S", "T">>, pat |-> <<>>, rep |-> <<>>]>>,
            brk |-> FALSE]>>
      [] per = Per("Joe", "Wilson") ->
        <<[cond |-> [kind |-> "eq", lits |-> {<<"1", "7", "0", "0", " ", "S", "U", "N", "S", "E", "T", " ", "B", "L", "V", "D", " ", "(", "U", "S", " ", "3", "7", "8", ")", ",", " ", "S", "U", "I", "T", "E", " ", "1">>}, notfirst |-> FALSE],
            acts |-> <<[a |-> "set", off |-> 0, s |-> <<"1", "7", "0", "0", " ", "S", "U", "N", "S", "E", "T", " ", "B", "L", "V", "D", " ", "S", "T", "E", " ", "1">>, pat |-> <<>>, rep |-> <<>>]>>,
            brk |-> FALSE]>>
      [] per = Per("Robert", "Wittman") ->
        <<[cond |-> [kind |-> "eq", lits |-> {<<"5", "0", "8", " ", "C", "H", "U", "R", "C", "H", " ", "L", "A", "N", "E">>, <<"3", "0", "7", " ", "M", "A", "I", "N", " ", "S", "T", "R", "E", "E", "T">>}, notfirst |-> FALSE],
            acts |-> <<[a |-> "remove", off |-> 0, s |-> <<>>, pat |-> <<>>, rep |-> <<>>]>>,
            brk |-> FALSE]>>
      [] per = Per("Andy", "Biggs") ->
        <<[cond |-> [kind |-> "eq", lits |-> {<<"S", "U", "P", "E", "R", "S", "T", "I", "T", "I", "O", "N", " ", "P", "L", "A", "Z", "A">>}, notfirst |-> FALSE],
            acts |-> <<[a |-> "remove", off |-> 0, s |-> <<>>, pat |-> <<>>, rep |-> <<>>]>>,
            brk |-> FALSE]>>
      [] per = Per("John", "Carter") ->
        <<[cond |-> [kind |-> "eq", lits |-> {<<"S", "U", "I", "T", "E", " ", "#", " ", "I", "-", "1", "0">>}, notfirst |-> FALSE],
            acts |-> <<[a |-> "remove", off |-> 0, s |-> <<>>, pat |-> <<>>, rep |-> <<>>]>>,
            brk |-> FALSE]>>
      [] per = Per("Michael", "Cloud") ->
        <<[cond |-> [kind |-> "eq", lits |-> {<<"T", "O", "W", "E", "R", " ", "I", "I", ",", " ", "S", "U", "I", "T", "E", " ", "9", "8", "0">>}, notfirst |-> FALSE],
            acts |-> <<[a |-> "set", off |-> 0, s |-> <<"S", "U", "I", "T", "E", " ", "9", "8", "0">>, pat |-> <<>>, rep |-> <<>>]>>,
            brk |-> FALSE]>>
      [] per = Per("Tony", "Gonzales") ->
        <<[cond |-> [kind |-> "contains", lits |-> {<<"(", "B", "Y", " ", "A", "P", "P", "T", " ", "O", "N", "L", "Y", ")">>}, notfirst |-> FALSE],
            acts |-> <<[a |-> "replace", off |-> 0, s |-> <<>>, pat |-> <<" ", "(", "B", "Y", " ", "A", "P", "P", "T", " ", "O", "N", "L", "Y", ")">>, rep |-> <<>>]>>,
            brk |-> FALSE]>>
      [] per = Per("Garret", "Graves") ->
        <<[cond |-> [kind |-> "contains", lits |-> {<<"6", "1", "5", " ", "E", " ", "W", "O", "R", "T", "H", "Y", " ", "S", "T", "R", "E", "E", "T", " ", "G", "O", "N", "Z", "A", "L", "E", "S">>}, notfirst |-> FALSE],
            acts |-> <<[a |-> "set", off |-> 0, s |-> <<"G", "O", "N", "Z", "A", "L", "E", "S">>, pat |-> <<>>, rep |-> <<>>],
                      [a |-> "insert", off |-> 0, s |-> <<"6", "1", "5", " ", "E", " ", "W", "O", "R", "T", "H", "Y", " ", "S", "T">>, pat |-> <<>>, rep |-> <<>>]>>,
            brk |-> FALSE]>>
      [] per = Per("Jared", "Huffman") ->
        <<[cond |-> [kind |-> "eq", lits |-> {<<"4", "3", "0", " ", "N", "O", "R", "T", "H", " ", "F", "R", "A", "N", "K", "L", "I", "N", " ", "S", "T", " ", "F", "O", "R", "T", " ", "B", "R", "A", "G", "G", ",", " ", "C", "A", " ", "9", "5", "4", "3", "7">>}, notfirst |-> FALSE],
            acts |-> <<[a |-> "set", off |-> 0, s |-> <<"F", "O", "R", "T", " ", "B", "R", "A", "G", "G", ",", " ", "C", "A", " ", "9", "5", "4", "3", "7">>, pat |-> <<>>, rep |-> <<>>],
                      [a |-> "insert", off |-> 0, s |-> <<"4", "3", "0", " ", "N", "O", "R", "T", "H", " ", "F", "R", "A", "N", "K", "L", "I", "N", " ", "S", "T">>, pat |-> <<>>, rep |-> <<>>]>>,
            brk |-> FALSE],
          [cond |-> [kind |-> "contains", lits |-> {<<"F", "O", "R", "T", " ", "B", "R", "A", "G", "G", " ", "9", "5", "4", "3", "7">>}, notfirst |-> FALSE],
            acts |-> <<[a |-> "set", off |-> 0, s |-> <<"F", "O", "R", "T", " ", "B", "R", "A", "G", "G", ",", " ", "C", "A", " ", "9", "5", "4", "3", "7">>, pat |-> <<>>, rep |-> <<>>]>>,
            brk |-> FALSE]>>
      [] per = Per("Bill", "Huizenga") ->
        <<[cond |-> [kind |-> "contains", lits |-> {<<"1", "0", "8", " ", "P", "O", "R", "T", "A", "G", "E", ",", " ", "M", "I", " ", "4", "9", "0", "0", "2">>}, notfirst |-> FALSE],
            acts |-> <<[a |-> "replace", off |-> 0, s |-> <<>>, pat |-> <<"1", "0", "8", " ", "P", "O", "R", "T", "A", "G", "E", ",", " ", "M", "I", " ", "4", "9", "0", "0", "2">>, rep |-> <<"1", "0", "8", "\n", "P", "O", "R", "T", "A", "G", "E", ",", " ", "M", "I", " ", "4", "9", "0", "0", "2">>]>>,
            brk |-> FALSE]>>
      [] per = Per("Mike", "Johnson") ->
        <<[cond |-> [kind |-> "eq", lits |-> {<<"4", "4", "4", " ", "C", "A", "S", "P", "A", "R", "I", " ", "D", "R", "I", "V", "E">>, <<"S", "O", "U", "T", "H", " ", "H", "A", "L", "L", " ", "R", "O", "O", "M", " ", "2", "2", "4">>}, notfirst |-> FALSE],
            acts |-> <<[a |-> "remove", off |-> 0, s |-> <<>>, pat |-> <<>>, rep |-> <<>>]>>,
            brk |-> FALSE],
          [cond |-> [kind |-> "eq", lits |-> {<<"P", "O", " ", "B", "O", "X", " ", "4", "9", "8", "9", " ", "(", "M", "A", "I", "L", "I", "N", "G", ")">>}, notfirst |-> FALSE],
            acts |-> <<[a |-> "set", off |-> 0, s |-> <<"P", "O", " ", "B", "O", "X", " ", "4", "9", "8", "9">>, pat |-> <<>>, rep |-> <<>>]>>,
            brk |-> FALSE]>>
      [] per = Per("Michael", "Lawler") ->
        <<[cond |-> [kind |-> "eq", lits |-> {<<"P", "O", " ", "B", "O", "X", " ", "1", "6", "4", "5">>}, notfirst |-> FALSE],
            acts |-> <<[a |-> "remove", off |-> 0, s |-> <<>>, pat |-> <<>>, rep |-> <<>>]>>,
            brk |-> FALSE]>>
      [] per = Per("Anna Paulina", "Luna") ->
        <<[cond |-> [kind |-> "contains", lits |-> {<<"O", "F", "F", "I", "C", "E", " ", "S", "U", "I", "T", "E", ":">>}, notfirst |-> FALSE],
            acts |-> <<[a |-> "replace", off |-> 0, s |-> <<>>, pat |-> <<"O", "F", "F", "I", "C", "E", " ", "S", "U", "I", "T", "E", ":">>, rep |-> <<"S", "T", "E">>]>>,
            brk |-> FALSE]>>
      [] per = Per("Daniel", "Meuser") ->
        <<[cond |-> [kind |-> "eq", lits |-> {<<"S", "U", "I", "T", "E", " ", "1", "1", "0", ",", " ", "L", "O", "S", "C", "H", " ", "P", "L", "A", "Z", "A">>}, notfirst |-> FALSE],
            acts |-> <<[a |-> "set", off |-> 0, s |-> <<"S", "U", "I", "T", "E", " ", "1", "1", "0">>, pat |-> <<>>, rep |-> <<>>]>>,
            brk |-> FALSE]>>
      [] per = Per("Max", "Miller") ->
        <<[cond |-> [kind |-> "eq", lits |-> {<<"W", "A", "S", "H", "I", "N", "G", "T", "O", "N">>}, notfirst |-> TRUE],
            acts |-> <<[a |-> "insert", off |-> -1, s |-> <<"1", "4", "3", " ", "C", "H", "O", "B">>, pat |-> <<>>, rep |-> <<>>]>>,
            brk |-> TRUE]>>
      [] per = Per("Frank", "Pallone") ->
        <<[cond |-> [kind |-> "eq", lits |-> {<<"6", "7", "/", "6", "9", " ", "C", "H", "U", "R", "C", "H", " ", "S", "T">>}, notfirst |-> FALSE],
            acts |-> <<[a |-> "set", off |-> 0, s |-> <<"6", "7", " ", "C", "H", "U", "R", "C", "H", " ", "S", "T">>, pat |-> <<>>, rep |-> <<>>]>>,
            brk |-> FALSE]>>
      [] per = Per("Stacey", "Plaskett") ->
        <<[cond |-> [kind |-> "eq", lits |-> {<<"F", "R", "E", "D", "E", "R", "I", "K", "S", "T", "E", "D", ",", " ", "V", "I", " ", "0", "0", "8", "4", "0">>}, notfirst |-> FALSE],
            acts |-> <<[a |-> "set", off |-> 0, s |-> <<"S", "T", " ", "C", "R", "O", "I", "X", ",", " ", "V", "I", " ", "0", "0", "8", "4", "0">>, pat |-> <<>>, rep |-> <<>>]>>,
            brk |-> FALSE]>>
      [] per = Per("Raul", "Grijalva") ->
        <<[cond |-> [kind |-> "eq", lits |-> {<<"1", "4", "6", " ", "N", " ", "S", "T", "A", "T", "E", " ", "A", "V", "E", "N", "U", "E">>}, notfirst |-> FALSE],
            acts |-> <<[a |-> "remove", off |-> 1, s |-> <<>>, pat |-> <<>>, rep |-> <<>>],
                      [a |-> "remove", off |-> 0, s |-> <<>>, pat |-> <<>>, rep |-> <<>>]>>,
            brk |-> FALSE],
          [cond |-> [kind |-> "starts_with", lits |-> {<<"M", "A", "I", "L", "I", "N", "G", " ", "A", "D", "D", "R", "E", "S", "S">>}, notfirst |-> FALSE],
            acts |-> <<[a |-> "take_next", off |-> 1, s |-> <<"P", "O", " ", "B", "O", "X", " ">>, pat |-> <<>>, rep |-> <<>>]>>,
            brk |-> FALSE]>>
      [] OTHER -> << >>

\* the match arms of edit_person_senate_lnes (src/senate.rs)
edit_person_senate_lnes_arms(per) ==
    CASE per = Per("Tommy", "Tuberville") ->
        <<[cond |-> [kind |-> "eq", lits |-> {<<"B", "B", "&", "T", " ", "C", "E", "N", "T", "R", "E", " ", "4", "1", " ", "W", "E", "S", "T", " ", "I", "-", "6", "5">>}, notfirst |-> FALSE],
            acts |-> <<[a |-> "set", off |-> 0, s |-> <<"4", "1", " ", "W", " ", "I", "-", "6", "5", " ", "S", "E", "R", "V", "I", "C", "E", " ", "R", "D", " ", "N", " ", "S", "T", "E", " ", "2", "3", "0", "0", "-", "A">>, pat |-> <<>>, rep |-> <<>>],
                      [a |-> "remove", off |-> 1, s |-> <<>>, pat |-> <<>>, rep |-> <<>>]>>,
            brk |-> FALSE]>>
      [] per = Per("Chuck", "Grassley") ->
        <<[cond |-> [kind |-> "eq", lits |-> {<<"2", "1", "0", " ", "W", "A", "L", "N", "U", "T", " ", "S", "T", "R", "E", "E", "T">>}, notfirst |-> FALSE],
            acts |-> <<[a |-> "remove", off |-> 0, s |-> <<>>, pat |-> <<>>, rep |-> <<>>]>>,
            brk |-> FALSE]>>
      [] per = Per("Joni", "Ernst") ->
        <<[cond |-> [kind |-> "eq", lits |-> {<<"2", "1", "4", "6", " ", "2", "7">>}, notfirst |-> FALSE],
            acts |-> <<[a |-> "set", off |-> 0, s |-> <<"2", "1", "4", "6", " ", "2", "7", "T", "H", " ", "A", "V", "E">>, pat |-> <<>>, rep |-> <<>>],
                      [a |-> "remove", off |-> 1, s |-> <<>>, pat |-> <<>>, rep |-> <<>>],
                      [a |-> "remove", off |-> 1, s |-> <<>>, pat |-> <<>>, rep |-> <<>>]>>,
            brk |-> FALSE],
          [cond |-> [kind |-> "eq", lits |-> {<<"2", "1", "0", " ", "W", "A", "L", "N", "U", "T", " ", "S", "T", "R", "E", "E", "T">>}, notfirst |-> FALSE],
            acts |-> <<[a |-> "remove", off |-> 0, s |-> <<>>, pat |-> <<>>, rep |-> <<>>]>>,
            brk |-> FALSE]>>
      [] per = Per("Roger", "Marshall") ->
        <<[cond |-> [kind |-> "contains", lits |-> {<<"2", "0", "0", "0", "2">>}, notfirst |-> FALSE],
            acts |-> <<[a |-> "replace", off |-> 0, s |-> <<>>, pat |-> <<"2", "0", "0", "0", "2">>, rep |-> <<"2", "0", "5", "1", "0">>]>>,
            brk |-> FALSE]>>
      [] per = Per("Angus", "King") ->
        <<[cond |-> [kind |-> "starts_with", lits |-> {<<"4", "0", " ", "W", "E", "S", "T", "E", "R", "N", " ", "A", "V", "E">>}, notfirst |-> FALSE],
            acts |-> <<[a |-> "set", off |-> 0, s |-> <<"4", "0", " ", "W", "E", "S", "T", "E", "R", "N", " ", "A", "V", "E", " ", "U", "N", "I", "T", " ", "4", "1", "2">>, pat |-> <<>>, rep |-> <<>>]>>,
            brk |-> FALSE]>>
      [] per = Per("Benjamin", "Cardin") ->
        <<[cond |-> [kind |-> "eq", lits |-> {<<"T", "O", "W", "E", "R", " ", "1", ",", " ", "S", "U", "I", "T", "E", " ", "1", "7", "1", "0">>}, notfirst |-> FALSE],
            acts |-> <<[a |-> "set", off |-> 0, s |-> <<"S", "U", "I", "T", "E", " ", "1", "7", "1", "0">>, pat |-> <<>>, rep |-> <<>>]>>,
            brk |-> FALSE]>>
      [] per = Per("Jeanne", "Shaheen") ->
        <<[cond |-> [kind |-> "eq", lits |-> {<<"O", "F", "F", "I", "C", "E", " ", "B", "U", "I", "L", "D", "I", "N", "G">>}, notfirst |-> FALSE],
            acts |-> <<[a |-> "remove", off |-> 0, s |-> <<>>, pat |-> <<>>, rep |-> <<>>]>>,
            brk |-> FALSE]>>
      [] per = Per("Robert", "Menendez") ->
        <<[cond |-> [kind |-> "eq", lits |-> {<<"H", "A", "R", "B", "O", "R", "S", "I", "D", "E", " ", "3", ",", " ", "S", "U", "I", "T", "E", " ", "1", "0", "0", "0">>}, notfirst |-> FALSE],
            acts |-> <<[a |-> "set", off |-> 0, s |-> <<"S", "U", "I", "T", "E", " ", "1", "0", "0", "0">>, pat |-> <<>>, rep |-> <<>>]>>,
            brk |-> FALSE]>>
      [] per = Per("Martin", "Heinrich") ->
        <<[cond |-> [kind |-> "starts_with", lits |-> {<<"7", "0", "9", " ", "H", "A", "R", "T">>}, notfirst |-> FALSE],
            acts |-> <<[a |-> "set", off |-> 0, s |-> <<"7", "0", "9", " ", "H", "A", "R", "T", " ", "S", "O", "B", ",", " ", "W", "A", "S", "H", "I", "N", "G", "T", "O", "N", ",", " ", "D", "C", " ", "2", "0", "5", "1", "0">>, pat |-> <<>>, rep |-> <<>>]>>,
            brk |-> FALSE]>>
      [] per = Per("Charles", "Schumer") ->
        <<[cond |-> [kind |-> "starts_with", lits |-> {<<"L", "E", "O", " ", "O", "'", "B", "R", "I", "E", "N">>}, notfirst |-> FALSE],
            acts |-> <<[a |-> "set", off |-> 0, s |-> <<"1", " ", "C", "L", "I", "N", "T", "O", "N", " ", "S", "Q", " ", "S", "T", "E", " ", "8", "2", "7">>, pat |-> <<>>, rep |-> <<>>]>>,
            brk |-> FALSE]>>
      [] per = Per("Kevin", "Cramer") ->
        <<[cond |-> [kind |-> "eq", lits |-> {<<"3", "2", "8", " ", "F", "E", "D", "E", "R", "A", "L", " ", "B", "U", "I", "L", "D", "I", "N", "G">>}, notfirst |-> FALSE],
            acts |-> <<[a |-> "remove_push_digits", off |-> 0, s |-> <<" ", "R", "M", " ">>, pat |-> <<>>, rep |-> <<>>]>>,
            brk |-> FALSE]>>
      [] per = Per("Sheldon", "Whitehouse") ->
        <<[cond |-> [kind |-> "starts_with", lits |-> {<<"H", "A", "R", "T", " ", "S", "E", "N", "A", "T", "E">>}, notfirst |-> FALSE],
            acts |-> <<[a |-> "set", off |-> 0, s |-> <<"5", "3", "0", " ", "H", "A", "R", "T", " ", "S", "O", "B">>, pat |-> <<>>, rep |-> <<>>]>>,
            brk |-> FALSE]>>
      [] per = Per("John", "Thune") ->
        <<[cond |-> [kind |-> "eq", lits |-> {<<"U", "N", "I", "T", "E", "D", " ", "S", "T", "A", "T", "E", "S", " ", "S", "E", "N", "A", "T", "E", " ", "S", "D", "-", "5", "1", "1">>}, notfirst |-> FALSE],
            acts |-> <<[a |-> "set", off |-> 0, s |-> <<"5", "1", "1", " ", "D", "I", "R", "K", "S", "E", "N", " ", "S", "O", "B">>, pat |-> <<>>, rep |-> <<>>]>>,
            brk |-> FALSE]>>
      [] per = Per("Mike", "Rounds") ->
        <<[cond |-> [kind |-> "starts_with", lits |-> {<<"H", "A", "R", "T", " ", "S", "E", "N", "A", "T", "E">>}, notfirst |-> FALSE],
            acts |-> <<[a |-> "set", off |-> 0, s |-> <<"7", "1", "6", " ", "H", "A", "R", "T", " ", "S", "O", "B">>, pat |-> <<>>, rep |-> <<>>]>>,
            brk |-> FALSE]>>
      [] per = Per("Marsha", "Blackburn") ->
        <<[cond |-> [kind |-> "starts_with", lits |-> {<<"1", "0", " ", "W", "E", "S", "T", " ", "M">>}, notfirst |-> FALSE],
            acts |-> <<[a |-> "set", off |-> 0, s |-> <<"1", "0", " ", "M", "A", "R", "T", "I", "N", " ", "L", "U", "T", "H", "E", "R", " ", "K", "I", "N", "G", " ", "B", "L", "V", "D">>, pat |-> <<>>, rep |-> <<>>]>>,
            brk |-> FALSE]>>
      [] per = Per("Bill", "Hagerty") ->
        <<[cond |-> [kind |-> "starts_with", lits |-> {<<"1", "0", "9", " ", "S">>}, notfirst |-> FALSE],
            acts |-> <<[a |-> "set", off |-> 0, s |-> <<"1", "0", "9", " ", "S", " ", "H", "I", "G", "H", "L", "A", "N", "D", " ", "A", "V", "E">>, pat |-> <<>>, rep |-> <<>>]>>,
            brk |-> FALSE],
          [cond |-> [kind |-> "eq", lits |-> {<<"2", "0", "0", "0", "2">>}, notfirst |-> FALSE],
            acts |-> <<[a |-> "set", off |-> 0, s |-> <<"2", "0", "5", "1", "0">>, pat |-> <<>>, rep |-> <<>>]>>,
            brk |-> FALSE]>>
      [] per = Per("Ted", "Cruz") ->
        <<[cond |-> [kind |-> "starts_with", lits |-> {<<"M", "I", "C", "K", "E", "Y", " ", "L", "E", "L", "A", "N", "D", " ", "F", "E", "D", "E", "R", "A", "L">>}, notfirst |-> FALSE],
            acts |-> <<[a |-> "set", off |-> 0, s |-> <<"1", "9", "1", "9", " ", "S", "M", "I", "T", "H", " ", "S", "T", " ", "S", "T", "E", " ", "9", "0", "4", "7">>, pat |-> <<>>, rep |-> <<>>]>>,
            brk |-> FALSE],
          [cond |-> [kind |-> "eq", lits |-> {<<"1", "6", "7", " ", "R", "U", "S", "S", "E", "L", "L">>}, notfirst |-> FALSE],
            acts |-> <<[a |-> "push_str", off |-> 0, s |-> <<" ", "S", "O", "B">>, pat |-> <<>>, rep |-> <<>>]>>,
            brk |-> FALSE]>>
      [] per = Per("Peter", "Welch") ->
        <<[cond |-> [kind |-> "starts_with", lits |-> {<<"S", "R", "-", "1", "2", "4", " ", "R", "U", "S", "S", "E", "L", "L">>}, notfirst |-> FALSE],
            acts |-> <<[a |-> "skip", off |-> 3, s |-> <<>>, pat |-> <<>>, rep |-> <<>>]>>,
            brk |-> FALSE]>>
      [] per = Per("John", "Barrasso") ->
        <<[cond |-> [kind |-> "ends_with", lits |-> {<<"(", "C", "O", "M", "M", "E", "R", "C", "E", " ", "B", "A", "N", "K", ")">>}, notfirst |-> FALSE],
            acts |-> <<[a |-> "set", off |-> 0, s |-> <<"1", "5", "7", "5", " ", "D", "E", "W", "A", "R", " ", "D", "R">>, pat |-> <<>>, rep |-> <<>>]>>,
            brk |-> FALSE]>>
      [] per = Per("Cynthia", "Lummis") ->
        <<[cond |-> [kind |-> "starts_with", lits |-> {<<"R", "U", "S", "S", "E", "L", "L", " ", "S", "E", "N", "A", "T", "E">>}, notfirst |-> FALSE],
            acts |-> <<[a |-> "set", off |-> 0, s |-> <<"1", "2", "7", " ", "R", "U", "S", "S", "E", "L", "L", " ", "S", "O", "B">>, pat |-> <<>>, rep |-> <<>>],
                      [a |-> "insert", off |-> 1, s |-> <<"W", "A", "S", "H", "I", "N", "G", "T", "O", "N", ",", " ", "D", "C", " ", "2", "0", "5", "1", "0">>, pat |-> <<>>, rep |-> <<>>]>>,
            brk |-> FALSE],
          [cond |-> [kind |-> "starts_with", lits |-> {<<"F", "E", "D", "E", "R", "A", "L", " ", "C", "E", "N", "T", "E", "R">>}, notfirst |-> FALSE],
            acts |-> <<[a |-> "set", off |-> 0, s |-> <<"2", "1", "2", "0", " ", "C", "A", "P", "I", "T", "O", "L", " ", "A", "V", "E", " ", "S", "T", "E", " ", "2", "0", "0", "7">>, pat |-> <<>>, rep |-> <<>>],
                      [a |-> "insert", off |-> 1, s |-> <<"C", "H", "E", "Y", "E", "N", "N", "E", ",", " ", "W", "Y", " ", "8", "2", "0", "0", "1">>, pat |-> <<>>, rep |-> <<>>]>>,
            brk |-> FALSE]>>
      [] OTHER -> << >>

\* the entities the three functions name, and one they do not name
OverridePersons ==
    { Per("Matthew", "Rosendale"),
      Per("Terri", "Sewell"),
      Per("Joe", "Wilson"),
      Per("Robert", "Wittman"),
      Per("Andy", "Biggs"),
      Per("John", "Carter"),
      Per("Michael", "Cloud"),
      Per("Tony", "Gonzales"),
      Per("Garret", "Graves"),
      Per("Jared", "Huffman"),
      Per("Bill", "Huizenga"),
      Per("Mike", "Johnson"),
      Per("Michael", "Lawler"),
      Per("Anna Paulina", "Luna"),
      Per("Daniel", "Meuser"),
      Per("Max", "Miller"),
      Per("Frank", "Pallone"),
      Per("Stacey", "Plaskett"),
      Per("Raul", "Grijalva"),
      Per("Tommy", "Tuberville"),
      Per("Chuck", "Grassley"),
      Per("Joni", "Ernst"),
      Per("Roger", "Marshall"),
      Per("Angus", "King"),
      Per("Benjamin", "Cardin"),
      Per("Jeanne", "Shaheen"),
      Per("Robert", "Menendez"),
      Per("Martin", "Heinrich"),
      Per("Charles", "Schumer"),
      Per("Kevin", "Cramer"),
      Per("Sheldon", "Whitehouse"),
      Per("John", "Thune"),
      Per("Mike", "Rounds"),
      Per("Marsha", "Blackburn"),
      Per("Bill", "Hagerty"),
      Per("Ted", "Cruz"),
      Per("Peter", "Welch"),
      Per("John", "Barrasso"),
      Per("Cynthia", "Lummis"),
      Per("", ""), Per("Jane", "Doe") }

edit_person_lnes(per, ls) ==
    PersonLoop(edit_person_lnes_arms(per), ls, Len(ls) - 1)

edit_person_house_lnes(per, ls) ==
    PersonLoop(edit_person_house_lnes_arms(per), ls, Len(ls) - 1)

edit_person_senate_lnes(per, ls) ==
    PersonLoop(edit_person_senate_lnes_arms(per), ls, Len(ls) - 1)

(***************************************************************************)
(* Specification of the Line Editor: one operation applied to a line      *)
(* sequence, then applied again to its own result.                         *)
(***************************************************************************)
E_A_bar_B == <<"A", "|", "B">>
E_A_bar_bar_B == <<"A", " ", "|", " ", "|", " ", "B">>
E_bar_B == <<"|", " ", "B">>
E_A_bar == <<"A", " ", "|">>
E_A_comma_B == <<"A", ",", "B">>
E_AUSTIN_TX_comma == <<"A", "U", "S", "T", "I", "N", ",", " ", "T", "X", ",">>
E_comma == <<",">>
E_12 == <<"1", "2">>
E_34 == <<"3", "4">>
E_VIDALIA_GA_304 == <<"V", "I", "D", "A", "L", "I", "A", ",", " ", "G", "A", " ", "3", "0", "4">>
E_AUSTIN_TX_78701 == <<"A", "U", "S", "T", "I", "N", ",", " ", "T", "X", " ", "7", "8", "7", "0", "1">>
E_X_12345_TX_78701 == <<"X", " ", "1", "2", "3", "4", "5", ",", " ", "T", "X", " ", "7", "8", "7", "0", "1">>
E_hash_hash_3_A == <<"#", "#", "3", " ", "A">>
E_hash_3_A == <<"#", "3", " ", "A">>
E_empty == <<>>
E_A == <<"A">>
E_A_B_CANNON == <<"A", ",", " ", "B", ",", " ", "C", "A", "N", "N", "O", "N">>
E_CANNON_HOUSE == <<"1", " ", "C", "A", "N", "N", "O", "N", " ", "H", "O", "U", "S", "E">>
E_ROOM_1 == <<"R", "O", "O", "M", " ", "1">>
E_ROOM == <<"R", "O", "O", "M">>
E_A_dot_B == <<"A", ".", "B">>
E_A_nl_B == <<"A", "\n", " ", "\n", "B", ",">>
E_1_half == <<"1", " ", Half, " ", "A">>
E_AUSTIN_TX_78701_1234 == <<"A", "U", "S", "T", "I", "N", ",", " ", "T", "X", " ", "7", "8", "7", "0", "1", "-", "1", "2", "3", "4">>
E_1_CANNON_H_O_B == <<"1", " ", "C", "A", "N", "N", "O", "N", " ", "H", ".", "O", ".", "B", ".">>
E_1_CANNON_HOB == <<"1", " ", "C", "A", "N", "N", "O", "N", " ", "H", "O", "B">>

\* the lines of the line sequences edited
EditLinePool ==
    { E_A_bar_B, E_A_bar_bar_B, E_bar_B, E_A_bar,
      E_A_comma_B, E_AUSTIN_TX_comma, E_comma, E_12,
      E_34, E_VIDALIA_GA_304, E_AUSTIN_TX_78701, E_X_12345_TX_78701,
      E_hash_hash_3_A, E_hash_3_A, E_empty, E_A,
      E_A_B_CANNON, E_CANNON_HOUSE, E_ROOM_1, E_ROOM,
      E_A_dot_B, E_A_nl_B, E_1_half, E_AUSTIN_TX_78701_1234,
      E_1_CANNON_H_O_B, E_1_CANNON_HOB,
      L_TX, L_78701, L_27_INDEPENDENCE_AVE, L_OFFICE_BUILDING }

MaxEditLines == 2

EditInputs == SeqsUpTo(EditLinePool, MaxEditLines)

\* an operation of the Line Editor, by name
Fn(f) == [fn |-> f, per |-> NoPerson]

\* the outcome of operation o on the lines ls
Apply(o, ls) ==
    CASE o.fn = "edit_split_bar" -> Ok(edit_split_bar(ls))
      [] o.fn = "edit_concat_zip" -> Ok(edit_concat_zip(ls))
      [] o.fn = "edit_zip_disjoint" -> Ok(edit_zip_disjoint(ls))
      [] o.fn = "edit_split_city_state_zip" -> Ok(edit_split_city_state_zip(ls))
      [] o.fn = "edit_drain_after_last_zip" -> Ok(edit_drain_after_last_zip(ls))
      [] o.fn = "edit_single_comma" -> Ok(edit_single_comma(ls))
      [] o.fn = "edit_hob" -> edit_hob(ls)
      [] o.fn = "edit_dot" -> Ok(edit_dot(ls))
      [] o.fn = "edit_newline" -> Ok(edit_newline(ls))
      [] o.fn = "edit_split_comma" -> Ok(edit_split_comma(ls))
      [] o.fn = "edit_starting_hash" -> Ok(edit_starting_hash(ls))
      [] o.fn = "edit_char_half" -> Ok(edit_char_half(ls))
      [] o.fn = "edit_empty" -> Ok(edit_empty(ls))
      [] o.fn = "edit_lnes" -> Ok(edit_lnes(ls))
      [] o.fn = "edit_person_lnes" -> edit_person_lnes(o.per, ls)
      [] o.fn = "edit_person_house_lnes" -> edit_person_house_lnes(o.per, ls)
      [] o.fn = "edit_person_senate_lnes" -> edit_person_senate_lnes(o.per, ls)

InitEdit ==
    /\ lnes \in EditInputs
    /\ op = NoOp
    /\ once = NoEdit
    /\ twice = NoEdit
    /\ zin = << >>
    /\ zout = NoZip
    /\ parsed = NotRun
    /\ StdIdle
    /\ FetchIdle

\* the operation o is called on the lines
CallOp(o) ==
    /\ op = NoOp
    /\ op' = o
    /\ once' = Apply(o, lnes)
    /\ UNCHANGED <<lnes, parsed, zin, zout, twice, stdVars, fetchVars>>

EditSplitBar == CallOp(Fn("edit_split_bar"))
EditConcatZip == CallOp(Fn("edit_concat_zip"))
EditZipDisjoint == CallOp(Fn("edit_zip_disjoint"))
EditSplitCityStateZip == CallOp(Fn("edit_split_city_state_zip"))
EditDrainAfterLastZip == CallOp(Fn("edit_drain_after_last_zip"))
EditSingleComma == CallOp(Fn("edit_single_comma"))
EditHob == CallOp(Fn("edit_hob"))
EditDot == CallOp(Fn("edit_dot"))
EditNewline == CallOp(Fn("edit_newline"))
EditSplitComma == CallOp(Fn("edit_split_comma"))
EditStartingHash == CallOp(Fn("edit_starting_hash"))
EditCharHalf == CallOp(Fn("edit_char_half"))
EditEmpty == CallOp(Fn("edit_empty"))
EditLnes == CallOp(Fn("edit_lnes"))

\* the same operation is called on the lines it returned
CallAgain ==
    /\ once.st = "ok"
    /\ twice = NoEdit
    /\ twice' = Apply(op, once.lnes)
    /\ UNCHANGED <<lnes, parsed, zin, zout, op, once, stdVars, fetchVars>>

NextEdit ==
    \/ EditSplitBar
    \/ EditConcatZip
    \/ EditZipDisjoint
    \/ EditSplitCityStateZip
    \/ EditDrainAfterLastZip
    \/ EditSingleComma
    \/ EditHob
    \/ EditDot
    \/ EditNewline
    \/ EditSplitComma
    \/ EditStartingHash
    \/ EditCharHalf
    \/ EditEmpty
    \/ EditLnes
    \/ CallAgain

SpecEdit == InitEdit /\ [][NextEdit]_vars

(***************************************************************************)
(* Claims about the Line Editor                                            *)
(***************************************************************************)
\* the lines ls with every line that contains c replaced, in place, by its
\* trimmed non-empty fragments in their order
RECURSIVE SplitLines(_, _)
SplitLines(ls, c) ==
    IF ls = << >> THEN << >>
    ELSE (IF Contains(Head(ls), <<c>>)
          THEN NonEmpty(TrimAll(Split(Head(ls), c)))
          ELSE <<Head(ls)>>) \o SplitLines(Tail(ls), c)

\* C20: edit_split_bar (for '|') and edit_split_comma (for ',') replace each
\* line that contains the delimiter by its trimmed fragments in their order
\* at the same position, emit no empty fragment, and leave the lines without
\* the delimiter and their order unchanged.
C20_SplitOnDelimiter ==
    /\ (op.fn = "edit_split_bar" /\ once.st = "ok") =>
          once.lnes = SplitLines(lnes, "|")
    /\ (op.fn = "edit_split_comma" /\ once.st = "ok") =>
          once.lnes = SplitLines(lnes, ",")

\* the operations the Line Editor lists as idempotent
IdempotentOps ==
    { "edit_split_bar", "edit_concat_zip", "edit_zip_disjoint",
      "edit_split_city_state_zip", "edit_drain_after_last_zip", "edit_hob",
      "edit_dot", "edit_newline", "edit_split_comma", "edit_starting_hash",
      "edit_char_half", "edit_empty" }

\* C16: for each operation of the Line Editor, applying it to its own
\* result gives that result again.
C16_EachOperationIdempotent ==
    (op.fn \in IdempotentOps /\ twice # NoEdit) => twice = once

\* C15: Prsr::edit_lnes reaches a fixed point after one run: run on its own
\* result, it returns that result.
C15_PipelineFixedPoint ==
    (op.fn = "edit_lnes" /\ twice # NoEdit) => twice = once

(***************************************************************************)
(* Specification of the override step: one of the three functions applied  *)
(* for an entity to a line sequence, then applied again to its own result. *)
(***************************************************************************)
\* the literals the conditions of the entity's arms name
RuleLiterals(per) ==
    UNION { UNION { arm[k].cond.lits : k \in 1..Len(arm) } :
              arm \in { edit_person_lnes_arms(per), edit_person_house_lnes_arms(per),
                        edit_person_senate_lnes_arms(per) } }

\* the lines of the sequences edited for the entity: the literals of its
\* rules and a line no rule names
OverrideLinePool(per) == RuleLiterals(per) \cup {E_A}

MaxOverrideLines == 3

OverrideInputs ==
    UNION { SeqsUpTo(OverrideLinePool(per), MaxOverrideLines) : per \in OverridePersons }

InitOverride ==
    /\ lnes \in OverrideInputs
    /\ op = NoOp
    /\ once = NoEdit
    /\ twice = NoEdit
    /\ zin = << >>
    /\ zout = NoZip
    /\ parsed = NotRun
    /\ StdIdle
    /\ FetchIdle

\* the function f is called for an entity on its lines
CallFor(f) ==
    \E per \in OverridePersons :
        /\ \A k \in 1..Len(lnes) : lnes[k] \in OverrideLinePool(per)
        /\ CallOp([fn |-> f, per |-> per])

EditPersonLnes == CallFor("edit_person_lnes")
EditPersonHouseLnes == CallFor("edit_person_house_lnes")
EditPersonSenateLnes == CallFor("edit_person_senate_lnes")

NextOverride ==
    \/ EditPersonLnes
    \/ EditPersonHouseLnes
    \/ EditPersonSenateLnes
    \/ CallAgain

SpecOverride == InitOverride /\ [][NextOverride]_vars

(***************************************************************************)
(* Claims about the override rules                                         *)
(***************************************************************************)
OverrideFns == {"edit_person_lnes", "edit_person_house_lnes", "edit_person_senate_lnes"}

\* the arm of the entity in the function f
ArmOf(f, per) ==
    CASE f = "edit_person_lnes" -> edit_person_lnes_arms(per)
      [] f = "edit_person_house_lnes" -> edit_person_house_lnes_arms(per)
      [] f = "edit_person_senate_lnes" -> edit_person_senate_lnes_arms(per)

\* no line of ls satisfies a condition of the entity's arm in f
NothingMatches(f, per, ls) ==
    \A i \in 0..(Len(ls) - 1) :
        \A k \in 1..Len(ArmOf(f, per)) : ~Holds(ArmOf(f, per)[k].cond, ls, i)

\* C13: the override step returns normally for every entity and every line
\* sequence, and returns the lines unchanged when no line matches a literal
\* of the entity's rule or the entity has no rule.
C13_OverridesNeverPanic ==
    op.fn \in OverrideFns =>
        /\ once.st = "ok"
        /\ twice.st # "panic"
        /\ NothingMatches(op.fn, op.per, lnes) => once.lnes = lnes

\* C14: applying an entity's override edits to their own result gives that
\* result again.
C14_OverridesIdempotent ==
    (op.fn \in OverrideFns /\ twice # NoEdit) => twice = once

(***************************************************************************)
(* Claims about the single operations of the Line Editor                   *)
(***************************************************************************)
\* the line is a state abbreviation or a state name, and nothing else
IsStateLine(lne) ==
    \E k \in 1..Len(StateAlts) : Len(lne) \in MatchWords(lne, {0}, StateAlts[k])

\* the lines with every line that is exactly a zip appended to the line
\* before it, unless that line is a state line, from index i down
RECURSIVE ZipsAppendedFrom(_, _)
ZipsAppendedFrom(ls, i) ==
    IF i < 1 THEN ls
    ELSE IF is_zip(At(ls, i)) /\ ~IsStateLine(At(ls, i - 1))
    THEN ZipsAppendedFrom(
            Remove(Set(ls, i - 1, At(ls, i - 1) \o <<" ">> \o At(ls, i)), i), i - 1)
    ELSE ZipsAppendedFrom(ls, i - 1)

\* C21: edit_concat_zip appends a line that is exactly a zip to the line
\* before it, joined by a space, if and only if that line is not a state
\* abbreviation or state name; a zip line at index 0 or after a state line
\* stays, and all other lines are unchanged.
C21_ConcatZip ==
    (op.fn = "edit_concat_zip" /\ once.st = "ok") =>
        once.lnes = ZipsAppendedFrom(lnes, Len(lnes) - 1)

\* the number of digits the line ends with
RECURSIVE TrailingDigits(_)
TrailingDigits(lne) ==
    IF lne # << >> /\ lne[Len(lne)] \in Digits
    THEN 1 + TrailingDigits(SubSeq(lne, 1, Len(lne) - 1))
    ELSE 0

\* the line ends in the leading digits of a zip: one to four digits
EndsMidZip(lne) == TrailingDigits(lne) \in 1..(LEN_ZIP5 - 1)

\* the line is short and all digits
IsShortDigits(lne) ==
    StrLen(lne) < LEN_ZIP5 /\ \A k \in 1..Len(lne) : lne[k] \in Digits

\* the lines with the last short digit line that follows a line ending
\* mid-zip joined onto that line, from index i down
RECURSIVE DisjointRepairedFrom(_, _)
DisjointRepairedFrom(ls, i) ==
    IF i < 1 THEN ls
    ELSE IF IsShortDigits(At(ls, i)) /\ EndsMidZip(At(ls, i - 1))
    THEN Remove(Set(ls, i - 1, At(ls, i - 1) \o At(ls, i)), i)
    ELSE DisjointRepairedFrom(ls, i - 1)

\* C22: edit_zip_disjoint joins a short all-digit line onto the line before
\* it only when that line ends mid-zip; a short digit line after any other
\* line, and every other line, is unchanged.
C22_ZipDisjoint ==
    (op.fn = "edit_zip_disjoint" /\ once.st = "ok") =>
        /\ once.lnes # lnes =>
              \E i \in 1..(Len(lnes) - 1) :
                  /\ IsShortDigits(At(lnes, i))
                  /\ EndsMidZip(At(lnes, i - 1))
                  /\ once.lnes = Remove(Set(lnes, i - 1, At(lnes, i - 1) \o At(lnes, i)), i)
        /\ once.lnes = DisjointRepairedFrom(lnes, Len(lnes) - 1)


\* the zip a line ends in: five digits not preceded by a digit or a dash,
\* or five digits, a dash and four digits; the line is longer than the zip
ZipAtEnd(lne) ==
    IF /\ Len(lne) > 5
       /\ FiveDigits(LastChars(lne, 5))
       /\ lne[Len(lne) - 5] \notin Digits \cup {"-"}
    THEN LastChars(lne, 5)
    ELSE IF Len(lne) > 10 /\ FivePlusFour(LastChars(lne, 10))
    THEN LastChars(lne, 10)
    ELSE None

\* the lines that stand for what precedes the zip, given the matches of the
\* state pattern in it: the text before the last match, stripped of trailing
\* blanks and punctuation and cut at its commas, then the matched state;
\* without a match the text itself, cut at its commas
BeforeZip(body, ms) ==
    IF ms = << >> THEN CommaParts(body)
    ELSE CommaParts(trim_end_spc_pnc(SubSeq(body, 1, ms[Len(ms)].start)))
            \o <<SubSeq(body, ms[Len(ms)].start + 1, ms[Len(ms)].end)>>

\* the lines one line is replaced by, for the zip found at its end
SplitLine(lne, zip) ==
    IF zip = None THEN <<lne>>
    ELSE BeforeZip(SubSeq(lne, 1, Len(lne) - Len(zip)),
                   re_state_find_iter(SubSeq(lne, 1, Len(lne) - Len(zip)))) \o <<zip>>

RECURSIVE SplitEach(_)
SplitEach(ls) ==
    IF ls = << >> THEN << >>
    ELSE SplitLine(Head(ls), ZipAtEnd(Head(ls))) \o SplitEach(Tail(ls))

\* the zip a line ends in when only a five-digit zip counts
Zip5AtEnd(lne) == IF Len(ZipAtEnd(lne)) = 5 /\ ZipAtEnd(lne) # None THEN ZipAtEnd(lne) ELSE None

RECURSIVE SplitEachZip5(_)
SplitEachZip5(ls) ==
    IF ls = << >> THEN << >>
    ELSE SplitLine(Head(ls), Zip5AtEnd(Head(ls))) \o SplitEachZip5(Tail(ls))

\* C23 as stated: a line ending in a five-digit zip is replaced in place by
\* the comma-separated parts before the last state match, the state and the
\* zip; a line ending in a 5+4 zip and a line not ending in a zip are left
\* as they are.
C23_SplitNotNineDigit ==
    (op.fn = "edit_split_city_state_zip" /\ once.st = "ok") =>
        once.lnes = SplitEachZip5(lnes)

\* C23 amended: every line longer than the zip it ends in, five-digit (not
\* preceded by a digit or a dash) or 5+4, is replaced in place by the parts
\* before the last state match, the state if one is found, and the zip; a
\* line that does not end in a zip is left as it is.
C23_SplitCityStateZip ==
    (op.fn = "edit_split_city_state_zip" /\ once.st = "ok") =>
        once.lnes = SplitEach(lnes)

C23_Witness ==
    /\ op.fn = "edit_split_city_state_zip"
    /\ once.st = "ok"
    /\ \E k \in 1..Len(lnes) : Len(ZipAtEnd(lnes[k])) = 10
    /\ Len(once.lnes) > Len(lnes)

L_HOUSE_OFFICE_BUILDING == <<"H", "O", "U", "S", "E", " ", "O", "F", "F", "I", "C", "E", " ", "B", "U", "I", "L", "D", "I", "N", "G">>
L_HOUSE_OFFICE_BLDG == <<"H", "O", "U", "S", "E", " ", "O", "F", "F", "I", "C", "E", " ", "B", "L", "D", "G", ".">>
L_H_O_B == <<"H", ".", "O", ".", "B", ".">>

\* the line names one of the three House office buildings
NamesBuilding(lne) ==
    Contains(lne, L_CANNON) \/ Contains(lne, L_LONGWORTH) \/ Contains(lne, L_RAYBURN)

\* the line spells the building suffix in one of the three long forms
HasLongForm(lne) ==
    \/ Contains(lne, L_HOUSE_OFFICE_BUILDING)
    \/ Contains(lne, L_HOUSE_OFFICE_BLDG)
    \/ Contains(lne, L_H_O_B)

\* C24: after edit_hob no line that names CANNON, LONGWORTH or RAYBURN still
\* carries 'HOUSE OFFICE BUILDING', 'HOUSE OFFICE BLDG.' or 'H.O.B.': each
\* such line has been rewritten to end in 'HOB'; a line that names a building
\* with 'H.O.B.' alone becomes the same line ending in 'HOB'.
C24_EditHob ==
    (op.fn = "edit_hob" /\ once.st = "ok") =>
        /\ \A k \in 1..Len(once.lnes) :
              NamesBuilding(once.lnes[k]) => ~HasLongForm(once.lnes[k])
        /\ lnes = <<E_1_CANNON_H_O_B>> =>
              once.lnes = <<SubSeq(E_1_CANNON_H_O_B, 1, 9) \o L_HOB>>

\* C29: edit_hob returns normally for every line sequence.
C29_EditHobReturns == op.fn = "edit_hob" => once.st # "panic"

(***************************************************************************)
(* Specification of the clock-time test: contains_time applied to one      *)
(* string.                                                                 *)
(***************************************************************************)
\* the cases of test_contains_time_valid and test_contains_time_invalid
TimeTestValid ==
    { <<"L", "u", "n", "c", "h", " ", "a", "t", " ", "1", "2", " ", "p", ".", "m", ".">>,
      <<"E", "V", "E", "R", "Y", " ", "1", "S", "T", ",", " ", "3", "R", "D", ",", " ", "A", "N", "D", " ", "5", "T", "H", " ", "W", "E", "D", " ", "1", "2", "-", "4", "P", "M">>,
      <<"M", "e", "e", "t", "i", "n", "g", " ", "a", "t", " ", "9", "A", "M", ".">>,
      <<"D", "i", "n", "n", "e", "r", " ", "a", "t", " ", "5", "P", "M", " ", "t", "o", "d", "a", "y", ".">>,
      <<"4", " ", "a", ".", "m", ".", " ", "i", "s", " ", "w", "a", "k", "e", "y", " ", "t", "i", "m", "e", ".">>,
      <<"S", "e", "e", " ", "y", "o", "u", " ", "a", "t", " ", "8", " ", "a", "m", ".">>,
      <<"W", "a", "k", "e", " ", "u", "p", " ", "a", "t", " ", "6", " ", "p", "m", ".">>,
      <<"1", "1", " ", "P", "M", " ", "i", "s", " ", "s", "l", "e", "e", "p", "y", " ", "t", "i", "m", "e", ".">>,
      <<"E", "v", "e", "n", "t", " ", "a", "t", " ", "3", " ", "A", ".", "M", ".">>,
      <<"A", "p", "p", "o", "i", "n", "t", "m", "e", "n", "t", " ", "a", "t", " ", "7", " ", "P", ".", "M", ".">> }

TimeTestInvalid ==
    { <<"T", "h", "i", "s", " ", "i", "s", " ", "a", " ", "t", "e", "s", "t", " ", "l", "i", "n", "e", ".">>,
      <<"N", "o", " ", "t", "i", "m", "e", " ", "h", "e", "r", "e", ".">>,
      <<"T", "h", "e", " ", "m", "e", "e", "t", "i", "n", "g", " ", "i", "s", " ", "a", "t", " ", "n", "o", "o", "n", ".">>,
      <<"I", "t", " ", "h", "a", "p", "p", "e", "n", "e", "d", " ", "i", "n", " ", "t", "h", "e", " ", "a", "f", "t", "e", "r", "n", "o", "o", "n", ".">>,
      <<"E", "v", "e", "n", "t", " ", "a", "t", " ", "1", "7", ":", "0", "0", ".">>,
      <<"T", "i", "m", "e", " ", "f", "o", "r", "m", "a", "t", " ", "2", "4", "-", "h", "o", "u", "r", " ", "1", "8", ":", "3", "0", ".">>,
      <<"M", "i", "d", "n", "i", "g", "h", "t", " ", "i", "s", " ", "a", "t", " ", "0", "0", ":", "0", "0", ".">> }

MaxTimeLen == 6

\* a digit, a blank, the two letters of a meridiem, the dot, and a character
\* that is none of them
TimeAlphabet == {"1", " ", "A", "M", ".", "x"}

\* longer lines: a token before a time, a time after a long digit run
TimeLines ==
    { <<"S", "U", "I", "T", "E", " ", "1", "A", ",", " ", "2", "0", "0", " ", "M", "A", "I", "N", " ", "S", "T">>,
      <<"5", " ", "P", "A", "R", "K", " ", "A", "V", "E", " ", "9", "A", "M">>,
      <<"1", "0", " ", "A", " ", "M", "A", "I", "N", " ", "S", "T">>,
      <<"1", "2", "3", " ", "A", "M">>,
      <<"7", "8", "7", "0", "1", " ", "A", "M">>,
      <<"1", "7", ":", "0", "0">>,
      <<"9", "a", ".", "m", ".">>,
      <<"9", " ", "\t", "p", "m">> }

TimeInputs ==
    SeqsUpTo(TimeAlphabet, MaxTimeLen) \cup TimeLines \cup TimeTestValid \cup TimeTestInvalid

\* the locals of contains_time before the first character
TimeStart == [cnt_dig |-> 0, saw_fst_chr |-> FALSE, ret |-> FALSE]

\* the body of the loop of contains_time for the character c, once the digit
\* count of the pass is known
TimeLetter(st, c, cnt) ==
    IF st.saw_fst_chr
    THEN IF c = "." THEN [st EXCEPT !.cnt_dig = cnt]
         ELSE IF c \in {"M", "m"} THEN [st EXCEPT !.cnt_dig = cnt, !.ret = TRUE]
         ELSE [st EXCEPT !.cnt_dig = 0]
    ELSE IF c \in {"A", "a", "P", "p"} THEN [st EXCEPT !.cnt_dig = cnt, !.saw_fst_chr = TRUE]
    ELSE IF c \notin Digits THEN [st EXCEPT !.cnt_dig = 0]
    ELSE [st EXCEPT !.cnt_dig = cnt]

\* one pass of the loop of contains_time
TimeStep(st, c) ==
    IF st.ret THEN st
    ELSE IF st.cnt_dig > 0
    THEN IF c \in Whitespace THEN st
         ELSE IF c \in Digits /\ st.cnt_dig = 2 THEN [st EXCEPT !.cnt_dig = 0]
         ELSE TimeLetter(st, c, IF c \in Digits THEN 2 ELSE st.cnt_dig)
    ELSE IF c \in Digits THEN [st EXCEPT !.cnt_dig = 1]
    ELSE st

RECURSIVE TimeScan(_, _, _)
TimeScan(lne, i, st) ==
    IF i > Len(lne) THEN st ELSE TimeScan(lne, i + 1, TimeStep(st, lne[i]))

\* contains_time
contains_time(lne) == TimeScan(lne, 1, TimeStart).ret

InitTime ==
    /\ zin \in TimeInputs
    /\ zout = NoZip
    /\ op = NoOp
    /\ once = NoEdit
    /\ twice = NoEdit
    /\ lnes = << >>
    /\ parsed = NotRun
    /\ StdIdle
    /\ FetchIdle

ContainsTime ==
    /\ ~zout.run
    /\ zout' = [run |-> TRUE, time |-> contains_time(zin)]
    /\ UNCHANGED <<zin, op, once, twice, lnes, parsed, stdVars, fetchVars>>

NextTime == ContainsTime

SpecTime == InitTime /\ [][NextTime]_vars

\* s[i..j] is a whole run of one or two digits
HourAt(s, i, j) ==
    /\ 1 <= i /\ i <= j /\ j <= Len(s) /\ j - i < 2
    /\ \A m \in i..j : s[m] \in Digits
    /\ i = 1 \/ s[i - 1] \notin Digits
    /\ j = Len(s) \/ s[j + 1] \notin Digits

\* at k: A or P, an optional dot, then M, in either case
MeridiemAt(s, k) ==
    /\ k <= Len(s)
    /\ s[k] \in {"A", "a", "P", "p"}
    /\ \/ k + 1 <= Len(s) /\ s[k + 1] \in {"M", "m"}
       \/ k + 2 <= Len(s) /\ s[k + 1] = "." /\ s[k + 2] \in {"M", "m"}

\* s contains an hour of one or two digits, optional whitespace, a meridiem
HasClockTime(s) ==
    \E i \in 1..Len(s) : \E j \in i..Len(s) : \E k \in (j + 1)..Len(s) :
        /\ HourAt(s, i, j)
        /\ \A m \in (j + 1)..(k - 1) : s[m] \in Whitespace
        /\ MeridiemAt(s, k)

\* C25: contains_time(s) is true exactly when s contains an hour of one or
\* two digits that is not part of a longer digit run, followed after optional
\* whitespace by A or P, then M, in either case, with an optional dot after
\* each letter, whatever precedes the time in s.
C25_ContainsTimeExact == zout.run => zout.time = HasClockTime(zin)

\* C27: parse_addresses never reads a line out of range and its address2
\* scan ends, wherever the zip line is, the first three lines included; each
\* address it returns takes its zip from an anchor at i, its state from line
\* i - 1, its city from line i - 2 and its address1 from a line at index at
\* most i - 3.
C27_IndexInvariant ==
    parsed # NotRun =>
        /\ parsed.st # "panic"
        /\ \A k \in 1..Len(parsed.adrs) :
              \E i \in AnchorIndices(lnes) : \E a \in 0..(i - 3) :
                  IsAddressOf(parsed.adrs[k], lnes, i, a)

\* C28: no line belongs to two addresses: each returned address is made of
\* lines, from its address1 line to its zip line, that lie strictly after
\* the zip line before its own.
C28_NoSharedLine ==
    parsed.st = "some" =>
        \A k \in 1..Len(parsed.adrs) :
            \E i \in AnchorIndices(lnes) : \E a \in 0..i :
                /\ IsAddressOf(parsed.adrs[k], lnes, i, a)
                /\ a > PrevZip(lnes, i)

\* the entities of a collection that carry addresses
Resolved(col) == {k \in 1..Len(col) : col[k].adrs.some}

\* C26: in the House flow every resolved entity, in memory and in the
\* checkpoint, carries at least two addresses, the entity fetched from
\* several fixed urls included.
C26_HouseAtLeastTwo ==
    flow = "house" =>
        /\ \A k \in Resolved(persons) : Len(persons[k].adrs.v) >= 2
        /\ \A k \in Resolved(disk) : Len(disk[k].adrs.v) >= 2

\* C30: when a fetch pass returns success every entity has resolved
\* addresses: an entity whose candidate urls all yield no addresses makes
\* the pass return an error, it is never skipped.
C30_SuccessMeansResolved ==
    fresult = "ok" =>
        \A k \in 1..Len(persons) :
            persons[k].adrs.some /\ persons[k].adrs.v # << >>
====
